---- MODULE Spec2Model ----
(***************************************************************************)
(* Model of the document-to-risk pipeline of autopolicy-legal-risk-analyzer *)
(*                                                                         *)
(*   - clause scoring: the banded scorers (risky_phrase_detector,          *)
(*     advanced_risk_engine, db_ingest, app) and the weighted-tag scorer   *)
(*     advanced_risk_logic.analyze_single_clause                           *)
(*   - document summaries: analyze_text_block, api_analyze_text,           *)
(*     insert_document_and_clauses, risk_summary.main                      *)
(*   - the normalizer Final_text_extractor.clean_text                      *)
(*   - the extractor Final_text_extractor.extract_text_from_pdf            *)
(*   - clause segmentation: Final_text_extractor.segment_clauses and       *)
(*     segment_text_to_csv                                                 *)
(*                                                                         *)
(* Representation.                                                         *)
(*   A clause text is a sequence of tokens (words); a phrase occurs in a   *)
(*   text when it is a contiguous run of the lowered text (Python's        *)
(*   `phrase in text.lower()` at token granularity).                       *)
(*   A float is held as the exact fraction [num, den] it stands for; a     *)
(*   value rounded to two decimals is held in hundredths (2.1 is 210).     *)
(*   The raw text given to clean_text, the text extract_text_from_pdf      *)
(*   collects and a sentence given to segment_clauses are sequences of     *)
(*   characters.                                                           *)
(***************************************************************************)
EXTENDS Integers, Sequences, FiniteSets, Bags, TLC

VARIABLES
    clause_text,    \* the clause handed to a scorer
    res,            \* what the scorer returned
    handler,        \* which summary handler is running
    pc,             \* its position: "idle", "loop", "done"
    total_clauses,  \* len(clauses) / len(rows)
    idx,            \* number of clauses the loop has consumed
    risky_count,    \* risky_count / risky_clauses / len(risky_clauses)
    risk_breakdown, \* tag -> count
    summary,        \* the summary the handler produced
    ct_in,          \* text handed to clean_text on the first pass
    ct_first,       \* what the first pass returned
    ct_out,         \* what the latest pass returned
    ct_pass,        \* number of passes done
    rate_p,         \* the percentage handed to a rating function
    rate_res,       \* the function applied and the grade it returned
    clauses_seen,   \* the clauses the loop has consumed, as a bag
    ct_lines,       \* lines of the first pass of clean_text
    ct_unique,      \* unique_lines of the first pass of clean_text
    ex_pdf,         \* the PDF handed to extract_text_from_pdf
    ex_pc,          \* its position
    ex_i,           \* number of pages the running loop has consumed
    ex_text,        \* text, the accumulator
    ex_log,         \* what it printed
    ex_done,        \* the pages that gave text, with the method that read it
    seg_sentence,   \* the sentence handed to segment_clauses
    seg_clauses,    \* what segment_clauses returned
    seg_called,     \* whether it has returned
    csv_sentences,  \* the sentences of the document, [sent.text.strip() ...]
    csv_si,         \* number of sentences segment_text_to_csv has consumed
    csv_rows,       \* csv_rows
    csv_saved,      \* whether the table has been written
    bl_text,        \* the text handed to build_latest_clauses.split_into_clauses
    bl_clauses,     \* the clauses it returned
    bl_rows,        \* the rows write_clauses_csv wrote
    bl_pc,          \* position of build_latest_clauses.main
    mono_c1,        \* a clause
    mono_c2,        \* the clause with one more piece of text
    mono_res,       \* the base scores of the two
    file_vocab,     \* version of legal_vocab.json on disk
    file_templates, \* version of risk_templates.json on disk
    module_globals,        \* _vocab, _templates, _variant_map, _generic_phrases
    learner_pc,     \* position of auto_learn_risky_words.main
    refreshes,      \* number of completed runs of auto_learn_risky_words.main
    reader,         \* per thread: position, locals, what the last call used
    fd_pdfs,        \* sorted(pdf_files) of process_folder, with their raw texts
    fd_i,           \* number of PDFs process_folder has handed to process_pdf
    fd_pc,          \* position of process_pdf in the current PDF
    fd_text,        \* text of process_pdf
    fd_files,       \* output path -> the document whose output it holds
    fd_written,     \* the outputs written so far, by document
    fd_processed,   \* sources moved to processed/
    fd_log,         \* what process_pdf printed, by document
    pl_exists,      \* stage script -> os.path.exists
    pl_stage,       \* the stage run_pipeline.main is at
    pl_started,     \* the stages started, with their return codes
    pl_exit,        \* exit code of the driver, -1 while it runs
    up_clock,       \* the file system's clock
    up_mtime,       \* processed/<name> -> modification time, 0 if absent
    up_req,         \* per request: position, uploaded name, folder found
    db_csv,         \* the rows of clauses_scored.csv
    db_pc,          \* position of insert_document_and_clauses
    db_i,           \* number of clause rows inserted in the transaction
    db_tx,          \* rows inserted in the open transaction
    db_tables,      \* committed rows of documents and clauses
    db_exit         \* exit code of db_ingest, -1 while it runs

scoreVars == <<clause_text, res>>
summaryVars == <<handler, pc, total_clauses, idx, risky_count, risk_breakdown, summary,
                 clauses_seen>>
cleanVars == <<ct_in, ct_first, ct_out, ct_pass, ct_lines, ct_unique>>
rateVars == <<rate_p, rate_res>>
extractVars == <<ex_pdf, ex_pc, ex_i, ex_text, ex_log, ex_done>>
segVars == <<seg_sentence, seg_clauses, seg_called>>
csvVars == <<csv_sentences, csv_si, csv_rows, csv_saved>>
textVars == <<extractVars, segVars, csvVars>>
coreVars == <<scoreVars, summaryVars, cleanVars, rateVars, textVars>>
buildVars == <<bl_text, bl_clauses, bl_rows, bl_pc>>
monoVars == <<mono_c1, mono_c2, mono_res>>
rulesVars == <<file_vocab, file_templates, module_globals, learner_pc, refreshes, reader>>
folderVars == <<fd_pdfs, fd_i, fd_pc, fd_text, fd_files, fd_written, fd_processed, fd_log>>
pipeVars == <<pl_exists, pl_stage, pl_started, pl_exit>>
uploadVars == <<up_clock, up_mtime, up_req>>
dbVars == <<db_csv, db_pc, db_i, db_tx, db_tables, db_exit>>
stageVars == <<buildVars, monoVars, rulesVars, folderVars, pipeVars, uploadVars, dbVars>>
vars == <<coreVars, stageVars>>

(***************************************************************************)
(* Bounds                                                                  *)
(***************************************************************************)
MaxPieces == 2      \* a clause text is at most this many pieces
MaxTags == 2        \* the tagger returns at most this many tags
MaxClauses == 20    \* a document has at most this many clauses
MaxRawPieces == 4   \* a raw text is at most this many pieces
MaxPasses == 2      \* clean_text is run at most this many times in a row
PctSteps == 2       \* percentages handed to a rating function: multiples of 1/PctSteps
MaxPages == 2       \* a PDF has at most this many pages
MaxSegPieces == 3   \* a sentence is at most this many pieces
MaxSentences == 3   \* a document has at most this many sentences
MaxCsvRows == 2     \* clauses_scored.csv has at most this many rows
MaxDocs == 2        \* a folder holds at most this many new PDFs
MaxRefreshes == 2   \* auto_learn rewrites the configuration at most this many times
MaxUploads == 2     \* at most this many uploads are handled at the same time
MaxBuildPieces == 4 \* an extracted text file is made of at most this many pieces

(***************************************************************************)
(* Sequence helpers                                                        *)
(***************************************************************************)
Range(s) == {s[i] : i \in 1..Len(s)}

RECURSIVE SeqsUpTo(_, _)
SeqsUpTo(S, n) ==
    IF n = 0 THEN {<<>>}
    ELSE LET shorter == SeqsUpTo(S, n - 1)
         IN  shorter \cup {Append(s, x) : s \in {t \in shorter : Len(t) = n - 1}, x \in S}

RECURSIVE Flatten(_)
Flatten(ss) == IF ss = <<>> THEN <<>> ELSE Head(ss) \o Flatten(Tail(ss))

(***************************************************************************)
(* Numbers: a float is held as the exact fraction it stands for            *)
(***************************************************************************)
Frac(num, den) == [num |-> num, den |-> den]

\* x <= t and x < t for a fraction x and a whole number t
FracLe(x, t) == x.num <= t * x.den
FracLt(x, t) == x.num < t * x.den

\* round(x, 2) and f"{x:.2f}", in hundredths: the nearest whole number of
\* hundredths, a tie going to the even one
Round2(x) ==
    LET n == x.num * 100
        q == n \div x.den
        r == n % x.den
    IN  IF 2 * r < x.den THEN q
        ELSE IF 2 * r > x.den THEN q + 1
        ELSE IF q % 2 = 0 THEN q ELSE q + 1

(***************************************************************************)
(* Text: tokens, str.lower(), `phrase in text`                             *)
(***************************************************************************)
\* str.lower() on one token; the mixed-case tokens are the ones the pieces use
LowerWord(w) ==
    CASE w = "We" -> "we"
      [] w = "MAY" -> "may"
      [] w = "Share" -> "share"
      [] w = "Your" -> "your"
      [] w = "Data" -> "data"
      [] w = "With" -> "with"
      [] w = "Consent" -> "consent"
      [] OTHER -> w

Lower(t) == [i \in 1..Len(t) |-> LowerWord(t[i])]

\* Python `phrase in t`
Contains(t, phrase) ==
    \E i \in 0..(Len(t) - Len(phrase)) :
        \A j \in 1..Len(phrase) : t[i + j] = phrase[j]

\* the pieces clause texts are made of
Pieces ==
    { <<"the", "customer">>,
      <<"we", "may", "share", "your", "personal", "data">>,
      <<"We", "MAY", "Share", "Your", "Data">>,
      <<"may", "close", "your", "account">>,
      <<"without", "prior", "notice">>,
      <<"you", "agree", "to", "indemnify">>,
      <<"processing", "fee">>,
      <<"subject", "to", "applicable", "law">>,
      <<"With", "Your", "Consent">> }

Texts == {Flatten(ps) : ps \in SeqsUpTo(Pieces, MaxPieces)}

(***************************************************************************)
(* Tags                                                                    *)
(***************************************************************************)
Tags == {"account_closure", "data_sharing", "fees_charges", "generic_risk", "indemnity"}

\* Python's sorted() on tag strings
TagOrder == <<"account_closure", "data_sharing", "fees_charges", "generic_risk", "indemnity">>

sorted(S) == SelectSeq(TagOrder, LAMBDA t : t \in S)

(***************************************************************************)
(* The phrase -> tags -> weight tables (one copy per entry point)          *)
(***************************************************************************)
\* RISKY_PATTERNS of risky_phrase_detector.py
RISKY_PATTERNS_detector ==
    << [phrase |-> <<"may", "share", "your", "personal", "data">>, tags |-> <<"data_sharing">>, base_score |-> 3],
       [phrase |-> <<"may", "share", "your", "information", "with", "third", "parties">>, tags |-> <<"data_sharing">>, base_score |-> 3],
       [phrase |-> <<"may", "disclose", "your", "personal", "information">>, tags |-> <<"data_sharing">>, base_score |-> 3],
       [phrase |-> <<"may", "disclose", "your", "information">>, tags |-> <<"data_sharing">>, base_score |-> 3],
       [phrase |-> <<"may", "share", "your", "data">>, tags |-> <<"data_sharing">>, base_score |-> 3],
       [phrase |-> <<"may", "use", "your", "personal", "data", "for", "marketing">>, tags |-> <<"data_sharing">>, base_score |-> 3],
       [phrase |-> <<"may", "terminate", "your", "account">>, tags |-> <<"account_closure">>, base_score |-> 3],
       [phrase |-> <<"may", "suspend", "your", "account">>, tags |-> <<"account_closure">>, base_score |-> 2],
       [phrase |-> <<"may", "close", "your", "account">>, tags |-> <<"account_closure">>, base_score |-> 2],
       [phrase |-> <<"may", "restrict", "your", "access">>, tags |-> <<"account_closure">>, base_score |-> 2],
       [phrase |-> <<"you", "agree", "to", "indemnify">>, tags |-> <<"indemnity">>, base_score |-> 3],
       [phrase |-> <<"you", "agree", "to", "hold", "us", "harmless">>, tags |-> <<"indemnity">>, base_score |-> 3],
       [phrase |-> <<"at", "our", "sole", "discretion">>, tags |-> <<"generic_risk">>, base_score |-> 2],
       [phrase |-> <<"at", "its", "sole", "discretion">>, tags |-> <<"generic_risk">>, base_score |-> 2],
       [phrase |-> <<"without", "prior", "notice">>, tags |-> <<"generic_risk">>, base_score |-> 1],
       [phrase |-> <<"without", "any", "prior", "notice">>, tags |-> <<"generic_risk">>, base_score |-> 1],
       [phrase |-> <<"we", "are", "not", "liable", "for">>, tags |-> <<"generic_risk">>, base_score |-> 2],
       [phrase |-> <<"no", "liability", "for">>, tags |-> <<"generic_risk">>, base_score |-> 2],
       [phrase |-> <<"we", "are", "not", "responsible", "for">>, tags |-> <<"generic_risk">>, base_score |-> 2],
       [phrase |-> <<"reserves", "the", "right", "to", "change", "its", "fee", "policy">>, tags |-> <<"fees_charges">>, base_score |-> 2],
       [phrase |-> <<"introduce", "fees", "for", "existing", "services">>, tags |-> <<"fees_charges">>, base_score |-> 2],
       [phrase |-> <<"all", "sales", "are", "final">>, tags |-> <<"fees_charges">>, base_score |-> 2],
       [phrase |-> <<"non-refundable">>, tags |-> <<"fees_charges">>, base_score |-> 2] >>

\* RISKY_PATTERNS of advanced_risk_engine.py
RISKY_PATTERNS_engine ==
    << [phrase |-> <<"may", "share", "your", "personal", "data">>, tags |-> <<"data_sharing">>, base_score |-> 3],
       [phrase |-> <<"may", "share", "your", "information", "with", "third", "parties">>, tags |-> <<"data_sharing">>, base_score |-> 3],
       [phrase |-> <<"may", "disclose", "your", "personal", "information">>, tags |-> <<"data_sharing">>, base_score |-> 3],
       [phrase |-> <<"may", "disclose", "your", "information">>, tags |-> <<"data_sharing">>, base_score |-> 3],
       [phrase |-> <<"may", "share", "your", "data">>, tags |-> <<"data_sharing">>, base_score |-> 3],
       [phrase |-> <<"may", "use", "your", "personal", "data", "for", "marketing">>, tags |-> <<"data_sharing">>, base_score |-> 3],
       [phrase |-> <<"may", "terminate", "your", "account">>, tags |-> <<"account_closure">>, base_score |-> 3],
       [phrase |-> <<"may", "suspend", "your", "account">>, tags |-> <<"account_closure">>, base_score |-> 2],
       [phrase |-> <<"may", "close", "your", "account">>, tags |-> <<"account_closure">>, base_score |-> 2],
       [phrase |-> <<"may", "restrict", "your", "access">>, tags |-> <<"account_closure">>, base_score |-> 2],
       [phrase |-> <<"you", "agree", "to", "indemnify">>, tags |-> <<"indemnity">>, base_score |-> 3],
       [phrase |-> <<"you", "agree", "to", "hold", "us", "harmless">>, tags |-> <<"indemnity">>, base_score |-> 3],
       [phrase |-> <<"at", "our", "sole", "discretion">>, tags |-> <<"generic_risk">>, base_score |-> 2],
       [phrase |-> <<"at", "its", "sole", "discretion">>, tags |-> <<"generic_risk">>, base_score |-> 2],
       [phrase |-> <<"without", "prior", "notice">>, tags |-> <<"generic_risk">>, base_score |-> 1],
       [phrase |-> <<"without", "any", "prior", "notice">>, tags |-> <<"generic_risk">>, base_score |-> 1],
       [phrase |-> <<"we", "are", "not", "liable", "for">>, tags |-> <<"generic_risk">>, base_score |-> 2],
       [phrase |-> <<"no", "liability", "for">>, tags |-> <<"generic_risk">>, base_score |-> 2],
       [phrase |-> <<"we", "are", "not", "responsible", "for">>, tags |-> <<"generic_risk">>, base_score |-> 2],
       [phrase |-> <<"reserves", "the", "right", "to", "change", "its", "fee", "policy">>, tags |-> <<"fees_charges">>, base_score |-> 2],
       [phrase |-> <<"introduce", "fees", "for", "existing", "services">>, tags |-> <<"fees_charges">>, base_score |-> 2],
       [phrase |-> <<"all", "sales", "are", "final">>, tags |-> <<"fees_charges">>, base_score |-> 2],
       [phrase |-> <<"non-refundable">>, tags |-> <<"fees_charges">>, base_score |-> 2],
       [phrase |-> <<"penal", "interest">>, tags |-> <<"fees_charges">>, base_score |-> 3],
       [phrase |-> <<"late", "payment", "charges">>, tags |-> <<"fees_charges">>, base_score |-> 2],
       [phrase |-> <<"late", "payment", "fee">>, tags |-> <<"fees_charges">>, base_score |-> 2],
       [phrase |-> <<"processing", "fee">>, tags |-> <<"fees_charges">>, base_score |-> 1],
       [phrase |-> <<"we", "may", "change", "the", "interest", "rate">>, tags |-> <<"generic_risk">>, base_score |-> 2] >>

\* RISKY_PATTERNS of db_ingest.py
RISKY_PATTERNS_db ==
    << [phrase |-> <<"may", "share", "your", "personal", "data">>, tags |-> <<"data_sharing">>, base_score |-> 3],
       [phrase |-> <<"may", "share", "your", "information", "with", "third", "parties">>, tags |-> <<"data_sharing">>, base_score |-> 3],
       [phrase |-> <<"may", "disclose", "your", "personal", "information">>, tags |-> <<"data_sharing">>, base_score |-> 3],
       [phrase |-> <<"may", "disclose", "your", "information">>, tags |-> <<"data_sharing">>, base_score |-> 3],
       [phrase |-> <<"may", "share", "your", "data">>, tags |-> <<"data_sharing">>, base_score |-> 3],
       [phrase |-> <<"may", "use", "your", "personal", "data", "for", "marketing">>, tags |-> <<"data_sharing">>, base_score |-> 3],
       [phrase |-> <<"may", "terminate", "your", "account">>, tags |-> <<"account_closure">>, base_score |-> 3],
       [phrase |-> <<"may", "suspend", "your", "account">>, tags |-> <<"account_closure">>, base_score |-> 2],
       [phrase |-> <<"may", "close", "your", "account">>, tags |-> <<"account_closure">>, base_score |-> 2],
       [phrase |-> <<"may", "restrict", "your", "access">>, tags |-> <<"account_closure">>, base_score |-> 2],
       [phrase |-> <<"you", "agree", "to", "indemnify">>, tags |-> <<"indemnity">>, base_score |-> 3],
       [phrase |-> <<"you", "agree", "to", "hold", "us", "harmless">>, tags |-> <<"indemnity">>, base_score |-> 3],
       [phrase |-> <<"at", "our", "sole", "discretion">>, tags |-> <<"generic_risk">>, base_score |-> 2],
       [phrase |-> <<"at", "its", "sole", "discretion">>, tags |-> <<"generic_risk">>, base_score |-> 2],
       [phrase |-> <<"without", "prior", "notice">>, tags |-> <<"generic_risk">>, base_score |-> 1],
       [phrase |-> <<"without", "any", "prior", "notice">>, tags |-> <<"generic_risk">>, base_score |-> 1],
       [phrase |-> <<"we", "are", "not", "liable", "for">>, tags |-> <<"generic_risk">>, base_score |-> 2],
       [phrase |-> <<"no", "liability", "for">>, tags |-> <<"generic_risk">>, base_score |-> 2],
       [phrase |-> <<"we", "are", "not", "responsible", "for">>, tags |-> <<"generic_risk">>, base_score |-> 2],
       [phrase |-> <<"reserves", "the", "right", "to", "change", "its", "fee", "policy">>, tags |-> <<"fees_charges">>, base_score |-> 2],
       [phrase |-> <<"introduce", "fees", "for", "existing", "services">>, tags |-> <<"fees_charges">>, base_score |-> 2],
       [phrase |-> <<"all", "sales", "are", "final">>, tags |-> <<"fees_charges">>, base_score |-> 2],
       [phrase |-> <<"non-refundable">>, tags |-> <<"fees_charges">>, base_score |-> 2],
       [phrase |-> <<"penal", "interest">>, tags |-> <<"fees_charges">>, base_score |-> 3],
       [phrase |-> <<"late", "payment", "charges">>, tags |-> <<"fees_charges">>, base_score |-> 2],
       [phrase |-> <<"late", "payment", "fee">>, tags |-> <<"fees_charges">>, base_score |-> 2],
       [phrase |-> <<"processing", "fee">>, tags |-> <<"fees_charges">>, base_score |-> 1],
       [phrase |-> <<"we", "may", "change", "the", "interest", "rate">>, tags |-> <<"generic_risk">>, base_score |-> 2] >>

\* RISKY_PATTERNS of app.py
RISKY_PATTERNS_app ==
    << [phrase |-> <<"may", "share", "your", "personal", "data">>, tags |-> <<"data_sharing">>, base_score |-> 3],
       [phrase |-> <<"may", "share", "your", "information", "with", "third", "parties">>, tags |-> <<"data_sharing">>, base_score |-> 3],
       [phrase |-> <<"may", "disclose", "your", "personal", "information">>, tags |-> <<"data_sharing">>, base_score |-> 3],
       [phrase |-> <<"may", "disclose", "your", "information">>, tags |-> <<"data_sharing">>, base_score |-> 3],
       [phrase |-> <<"may", "share", "your", "data">>, tags |-> <<"data_sharing">>, base_score |-> 3],
       [phrase |-> <<"may", "use", "your", "personal", "data", "for", "marketing">>, tags |-> <<"data_sharing">>, base_score |-> 3],
       [phrase |-> <<"may", "terminate", "your", "account">>, tags |-> <<"account_closure">>, base_score |-> 3],
       [phrase |-> <<"may", "suspend", "your", "account">>, tags |-> <<"account_closure">>, base_score |-> 2],
       [phrase |-> <<"may", "close", "your", "account">>, tags |-> <<"account_closure">>, base_score |-> 2],
       [phrase |-> <<"may", "restrict", "your", "access">>, tags |-> <<"account_closure">>, base_score |-> 2],
       [phrase |-> <<"you", "agree", "to", "indemnify">>, tags |-> <<"indemnity">>, base_score |-> 3],
       [phrase |-> <<"you", "agree", "to", "hold", "us", "harmless">>, tags |-> <<"indemnity">>, base_score |-> 3],
       [phrase |-> <<"at", "our", "sole", "discretion">>, tags |-> <<"generic_risk">>, base_score |-> 2],
       [phrase |-> <<"at", "its", "sole", "discretion">>, tags |-> <<"generic_risk">>, base_score |-> 2],
       [phrase |-> <<"without", "prior", "notice">>, tags |-> <<"generic_risk">>, base_score |-> 1],
       [phrase |-> <<"without", "any", "prior", "notice">>, tags |-> <<"generic_risk">>, base_score |-> 1],
       [phrase |-> <<"we", "are", "not", "liable", "for">>, tags |-> <<"generic_risk">>, base_score |-> 2],
       [phrase |-> <<"no", "liability", "for">>, tags |-> <<"generic_risk">>, base_score |-> 2],
       [phrase |-> <<"we", "are", "not", "responsible", "for">>, tags |-> <<"generic_risk">>, base_score |-> 2],
       [phrase |-> <<"reserves", "the", "right", "to", "change", "its", "fee", "policy">>, tags |-> <<"fees_charges">>, base_score |-> 2],
       [phrase |-> <<"introduce", "fees", "for", "existing", "services">>, tags |-> <<"fees_charges">>, base_score |-> 2],
       [phrase |-> <<"all", "sales", "are", "final">>, tags |-> <<"fees_charges">>, base_score |-> 2],
       [phrase |-> <<"non-refundable">>, tags |-> <<"fees_charges">>, base_score |-> 2] >>

(***************************************************************************)
(* Banded regime                                                           *)
(***************************************************************************)
\* for phrase, phrase_tags, base_score in RISKY_PATTERNS: rows i.. of the loop,
\* tags and score being the accumulators. The loop is the same text in
\* score_sentence_simple and in the three score_clause_simple.
RECURSIVE MatchRowsOncePerTag(_, _, _, _, _)
MatchRowsOncePerTag(patterns, t, i, tags, score) ==
    IF i > Len(patterns) THEN [tags |-> tags, score |-> score]
    ELSE IF Contains(t, patterns[i].phrase)
         THEN MatchRowsOncePerTag(patterns, t, i + 1,
                        tags \cup Range(patterns[i].tags),
                        IF Range(patterns[i].tags) \subseteq tags
                        THEN score ELSE score + patterns[i].base_score)
         ELSE MatchRowsOncePerTag(patterns, t, i + 1, tags, score)

RECURSIVE MatchRowsFrom(_, _, _, _, _)
MatchRowsFrom(patterns, t, i, tags, score) ==
    IF i > Len(patterns) THEN [tags |-> tags, score |-> score]
    ELSE IF Contains(t, patterns[i].phrase)
         THEN MatchRowsFrom(patterns, t, i + 1,
                        tags \cup Range(patterns[i].tags),
                        score + patterns[i].base_score)
         ELSE MatchRowsFrom(patterns, t, i + 1, tags, score)

MatchRows(patterns, t, i, tags, score) == MatchRowsFrom(patterns, t, i, tags, score)

\* "Map raw score -> 0/1/2/3" of score_sentence_simple
BandModSix(score) ==
    LET s == score % 6
    IN  IF s >= 5 THEN 3
        ELSE IF s >= 3 THEN 2
        ELSE IF s > 0 THEN 1
        ELSE 0

Band(score) ==
    IF score >= 5 THEN 3
    ELSE IF score >= 3 THEN 2
    ELSE IF score > 0 THEN 1
    ELSE 0

\* "clamp into 0..3" of the three score_clause_simple (no else branch)
Clamp(score) ==
    IF score >= 5 THEN 3
    ELSE IF score >= 3 THEN 2
    ELSE IF score > 0 THEN 1
    ELSE score

\* risky_phrase_detector.score_sentence_simple
score_sentence_simple(text) ==
    IF text = <<>>
    THEN [fn |-> "score_sentence_simple", text |-> text, raw |-> 0,
          is_risky |-> FALSE, tags |-> <<>>, score |-> 0]
    ELSE LET m == MatchRows(RISKY_PATTERNS_detector, Lower(text), 1, {}, 0)
             score == Band(m.score)
         IN  [fn |-> "score_sentence_simple", text |-> text, raw |-> m.score,
              is_risky |-> score > 0, tags |-> sorted(m.tags), score |-> score]

\* advanced_risk_engine.score_clause_simple
score_clause_simple_engine(text) ==
    LET m == MatchRows(RISKY_PATTERNS_engine, Lower(text), 1, {}, 0)
        score == Clamp(m.score)
    IN  [fn |-> "engine.score_clause_simple", text |-> text, raw |-> m.score,
         is_risky |-> score > 0, tags |-> sorted(m.tags), score |-> score]

\* db_ingest.score_clause_simple
score_clause_simple_db(text) ==
    LET m == MatchRows(RISKY_PATTERNS_db, Lower(text), 1, {}, 0)
        score == Clamp(m.score)
    IN  [fn |-> "db_ingest.score_clause_simple", text |-> text, raw |-> m.score,
         is_risky |-> score > 0, tags |-> sorted(m.tags), score |-> score]

\* app.score_clause_simple
score_clause_simple_app(text) ==
    LET m == MatchRows(RISKY_PATTERNS_app, Lower(text), 1, {}, 0)
        score == Clamp(m.score)
    IN  [fn |-> "app.score_clause_simple", text |-> text, raw |-> m.score,
         is_risky |-> score > 0, tags |-> sorted(m.tags), score |-> score]

BandedFns == {"score_sentence_simple", "engine.score_clause_simple",
              "db_ingest.score_clause_simple", "app.score_clause_simple"}

(***************************************************************************)
(* Weighted-tag regime: advanced_risk_logic                                *)
(***************************************************************************)
TAG_WEIGHTS ==
    [account_closure |-> 4, data_sharing |-> 3, fees_charges |-> 2, generic_risk |-> 1]

PROTECTION_PHRASES ==
    << <<"subject", "to", "applicable", "law">>,
       <<"in", "accordance", "with", "applicable", "law">>,
       <<"with", "your", "consent">>,
       <<"with", "prior", "notice">>,
       <<"upon", "prior", "written", "notice">>,
       <<"with", "reasonable", "notice">>,
       <<"only", "with", "your", "explicit", "consent">> >>

\* MITIGATION_FACTOR = 0.7
MITIGATION_FACTOR == Frac(7, 10)

\* what the call of detect_risks_for_sentence can return: the tagger is not
\* part of the sources, so any list of at most MaxTags tags
TagLists == SeqsUpTo(Tags, MaxTags)

\* TAG_WEIGHTS.get(t, 1)
TagWeightZeroDefault(t) == IF t \in DOMAIN TAG_WEIGHTS THEN TAG_WEIGHTS[t] ELSE 0

TagWeight(t) == IF t \in DOMAIN TAG_WEIGHTS THEN TAG_WEIGHTS[t] ELSE 1

\* base_score = 0; for t in tags: base_score += TAG_WEIGHTS.get(t, 1)
RECURSIVE BaseScore(_)
BaseScore(tags) ==
    IF tags = <<>> THEN 0 ELSE TagWeight(Head(tags)) + BaseScore(Tail(tags))

\* for phrase in PROTECTION_PHRASES: if phrase in clause_lower: append
MitigationsFoundCaseSensitive(text) ==
    SelectSeq(PROTECTION_PHRASES, LAMBDA p : Contains(text, p))

MitigationsFound(text) ==
    SelectSeq(PROTECTION_PHRASES, LAMBDA p : Contains(Lower(text), p))

\* final_score = float(base_score); if mitigations_found and final_score > 0:
\* final_score *= MITIGATION_FACTOR
\* (the float product is within one unit in the last place of this fraction,
\* and no product 0.7 * n is 2 or 5, the thresholds it is compared with)
FinalScoreRaised(base_score, mitigations_found) ==
    IF mitigations_found # <<>> /\ base_score > 0
    THEN Frac(base_score * (2 * MITIGATION_FACTOR.den - MITIGATION_FACTOR.num),
              MITIGATION_FACTOR.den)
    ELSE Frac(base_score, 1)

FinalScore(base_score, mitigations_found) ==
    IF mitigations_found # <<>> /\ base_score > 0
    THEN Frac(base_score * MITIGATION_FACTOR.num, MITIGATION_FACTOR.den)
    ELSE Frac(base_score, 1)

_compute_severity(score) ==
    IF FracLe(score, 2) THEN "LOW"
    ELSE IF FracLe(score, 5) THEN "MEDIUM"
    ELSE "HIGH"

\* _build_explanation: the sentences it joins, by what each is about
_build_explanation(tags, mitigations) ==
    IF tags = <<>> THEN <<"no_pattern">>
    ELSE (IF "data_sharing" \in Range(tags) THEN <<"data_sharing">> ELSE <<>>)
         \o (IF "account_closure" \in Range(tags) THEN <<"account_closure">> ELSE <<>>)
         \o (IF "fees_charges" \in Range(tags) THEN <<"fees_charges">> ELSE <<>>)
         \o (IF "generic_risk" \in Range(tags) THEN <<"generic_risk">> ELSE <<>>)
         \o (IF mitigations # <<>> THEN <<"protected">> ELSE <<"no_protection">>)

\* severity = _compute_severity(final_score)
SeverityOfBase(base_score, final_score) == _compute_severity(Frac(base_score, 1))

SeverityOf(base_score, final_score) == _compute_severity(final_score)

\* analyze_single_clause(clause_text, idx), tags being what the tagger
\* returned; final_score is returned in hundredths
analyze_single_clause(text, i, tags) ==
    LET base_score == BaseScore(tags)
        mitigations_found == MitigationsFound(text)
        final_score == FinalScore(base_score, mitigations_found)
    IN  [fn |-> "analyze_single_clause",
         clause_number |-> i,
         text |-> text,
         tags |-> tags,
         is_risky |-> tags # <<>>,
         base_score |-> base_score,
         final_score |-> Round2(final_score),
         severity |-> SeverityOf(base_score, final_score),
         mitigations_found |-> mitigations_found,
         explanation |-> _build_explanation(tags, mitigations_found)]

(***************************************************************************)
(* Scoring one clause: the input is drawn in Init, one scorer is applied   *)
(***************************************************************************)
NoRes == [fn |-> "none"]

ScoreSentenceSimple ==
    /\ res.fn = "none"
    /\ res' = score_sentence_simple(clause_text)
    /\ UNCHANGED <<clause_text, summaryVars, cleanVars, rateVars, textVars, stageVars>>

ScoreClauseSimpleEngine ==
    /\ res.fn = "none"
    /\ res' = score_clause_simple_engine(clause_text)
    /\ UNCHANGED <<clause_text, summaryVars, cleanVars, rateVars, textVars, stageVars>>

ScoreClauseSimpleDb ==
    /\ res.fn = "none"
    /\ res' = score_clause_simple_db(clause_text)
    /\ UNCHANGED <<clause_text, summaryVars, cleanVars, rateVars, textVars, stageVars>>

ScoreClauseSimpleApp ==
    /\ res.fn = "none"
    /\ res' = score_clause_simple_app(clause_text)
    /\ UNCHANGED <<clause_text, summaryVars, cleanVars, rateVars, textVars, stageVars>>

AnalyzeSingleClause ==
    /\ res.fn = "none"
    /\ \E tags \in TagLists : res' = analyze_single_clause(clause_text, 1, tags)
    /\ UNCHANGED <<clause_text, summaryVars, cleanVars, rateVars, textVars, stageVars>>

(***************************************************************************)
(* Document summaries                                                      *)
(*                                                                         *)
(* A handler walks the clauses of one document. The model draws the number *)
(* of clauses when the handler starts and each clause when the loop        *)
(* reaches it; the list of risky clauses is held by its length.            *)
(***************************************************************************)
\* the clauses documents are made of: no match, one tag, two tags
DocClauses ==
    { <<"the", "customer">>,
      <<"we", "may", "share", "your", "personal", "data">>,
      <<"may", "close", "your", "account", "without", "prior", "notice">> }

\* what the tagger returns for the clauses of a document (any of these for
\* any clause)
DocTagLists == { <<>>, <<"data_sharing">>, <<"account_closure", "generic_risk">> }

\* rows of latest_clauses_scored.csv: model_is_risky as written in the file,
\* model_risk_reason as the items between its commas
DocRows ==
    { [model_is_risky |-> "FALSE", model_risk_reason |-> <<>>],
      [model_is_risky |-> "TRUE", model_risk_reason |-> <<"data_sharing">>],
      [model_is_risky |-> " true ",
       model_risk_reason |-> <<"account_closure", "generic_risk">>] }

\* (s or "").strip().upper()
StripUpper(s) ==
    CASE s = " true " -> "TRUE"
      [] s = "true" -> "TRUE"
      [] s = " TRUE" -> "TRUE"
      [] OTHER -> s

\* (risky * 100.0 / total) if total > 0 else 0.0
RiskyPercentFraction(risky, total) ==
    IF total > 0 THEN Frac(risky, total) ELSE Frac(0, 1)

RiskyPercent(risky, total) ==
    IF total > 0 THEN Frac(risky * 100, total) ELSE Frac(0, 1)

\* risk_summary.main: (risky_count / total * 100.0) if total > 0 else 0.0
RiskyPct(risky, total) ==
    IF total > 0 THEN Frac(risky * 100, total) ELSE Frac(0, 1)

\* app.overall_rating_from_percent
overall_rating_from_percent(p) ==
    IF FracLe(p, 1) THEN "A"
    ELSE IF FracLe(p, 5) THEN "B"
    ELSE IF FracLe(p, 15) THEN "C"
    ELSE "D"

\* db_ingest.grade_from_percent
grade_from_percent(p) ==
    IF FracLe(p, 1) THEN "A"
    ELSE IF FracLe(p, 5) THEN "B"
    ELSE IF FracLe(p, 15) THEN "C"
    ELSE "D"

\* the rating of advanced_risk_logic.analyze_text_block
BlockRatingStrict(p) ==
    IF FracLt(p, 5) THEN "A"
    ELSE IF FracLt(p, 15) THEN "B"
    ELSE IF FracLt(p, 30) THEN "C"
    ELSE "D"

BlockRating(p) ==
    IF FracLe(p, 5) THEN "A"
    ELSE IF FracLe(p, 15) THEN "B"
    ELSE IF FracLe(p, 30) THEN "C"
    ELSE "D"

\* the rating of risk_summary.main
SummaryRatingWithD(p) ==
    IF FracLe(p, 5) THEN "A (Low Risk)"
    ELSE IF FracLe(p, 15) THEN "B (Moderate Risk)"
    ELSE IF FracLe(p, 30) THEN "C (High Risk)"
    ELSE "D"

SummaryRating(p) ==
    IF FracLe(p, 5) THEN "A (Low Risk)"
    ELSE IF FracLe(p, 15) THEN "B (Moderate Risk)"
    ELSE "C (High Risk)"

\* the percentages 0..100 a rating function is tried on
Percents == {Frac(k, PctSteps) : k \in 0..(100 * PctSteps)}

NoRating == [fn |-> "none"]

Rate(fn, grade) ==
    /\ rate_res.fn = "none"
    /\ rate_res' = [fn |-> fn, grade |-> grade]
    /\ UNCHANGED <<rate_p, scoreVars, summaryVars, cleanVars, textVars, stageVars>>

RateApp == Rate("overall_rating_from_percent", overall_rating_from_percent(rate_p))
RateDb == Rate("grade_from_percent", grade_from_percent(rate_p))
RateBlock == Rate("analyze_text_block", BlockRating(rate_p))
RateSummary == Rate("risk_summary", SummaryRating(rate_p))

\* risk_breakdown[t] = risk_breakdown.get(t, 0) + 1, for t in tags
EmptyBreakdown == [t \in Tags |-> 0]

\* the same, the counts of the other tags being dropped
AddTagsLastWins(breakdown, tags) ==
    [t \in Tags |-> IF t \in Range(tags) THEN breakdown[t] + 1 ELSE 0]

\* the same, for the first tag only
AddTagsFirstTag(breakdown, tags) ==
    IF tags = <<>> THEN breakdown
    ELSE [breakdown EXCEPT ![Head(tags)] = @ + 1]

RECURSIVE AddTags(_, _)
AddTags(breakdown, tags) ==
    IF tags = <<>> THEN breakdown
    ELSE AddTags([breakdown EXCEPT ![Head(tags)] = @ + 1], Tail(tags))

NoSummary == [ok |-> FALSE, why |-> "none"]

StartLoop(h, n) ==
    /\ pc = "idle"
    /\ handler' = h
    /\ total_clauses' = n
    /\ idx' = 0
    /\ risky_count' = 0
    /\ risk_breakdown' = EmptyBreakdown
    /\ clauses_seen' = EmptyBag
    /\ pc' = "loop"
    /\ UNCHANGED <<summary, scoreVars, cleanVars, rateVars, textVars, stageVars>>

\* one turn of the loop: the clause counted, as risky with these tags or not
LoopStep(is_risky, tags) ==
    /\ idx' = idx + 1
    /\ risky_count' = IF is_risky THEN risky_count + 1 ELSE risky_count
    /\ risk_breakdown' = IF is_risky THEN AddTags(risk_breakdown, tags) ELSE risk_breakdown
    /\ clauses_seen' = clauses_seen (+) SetToBag({[is_risky |-> is_risky, tags |-> tags]})
    /\ UNCHANGED <<handler, pc, total_clauses, summary, scoreVars, cleanVars, rateVars, textVars, stageVars>>

Finish(s) ==
    /\ pc' = "done"
    /\ summary' = s
    /\ UNCHANGED <<handler, total_clauses, idx, risky_count, risk_breakdown,
                   clauses_seen, scoreVars, cleanVars, rateVars, textVars, stageVars>>

----
\* advanced_risk_logic.analyze_text_block
BlockStart == \E n \in 0..MaxClauses : StartLoop("analyze_text_block", n)

BlockStep ==
    /\ handler = "analyze_text_block" /\ pc = "loop" /\ idx < total_clauses
    /\ \E c \in DocClauses, tags \in DocTagLists :
          LET info == analyze_single_clause(c, idx + 1, tags)
          IN  LoopStep(info.is_risky, info.tags)

BlockFinish ==
    /\ handler = "analyze_text_block" /\ pc = "loop" /\ idx = total_clauses
    /\ LET risky_percent == RiskyPercent(risky_count, total_clauses)
       IN  Finish([ok |-> TRUE,
                   total_clauses |-> total_clauses,
                   risky_clauses |-> risky_count,
                   percent |-> risky_percent,
                   risky_percent |-> Frac(Round2(risky_percent), 100),
                   overall_rating |-> BlockRating(risky_percent),
                   risk_breakdown |-> risk_breakdown])

----
\* app.api_analyze_text
ApiStart ==
    \E n \in 0..MaxClauses :
        IF n = 0
        THEN \* raw_text is empty: 400 "No text provided."
             /\ pc = "idle"
             /\ handler' = "api_analyze_text"
             /\ pc' = "done"
             /\ summary' = [ok |-> FALSE, why |-> "No text provided."]
             /\ UNCHANGED <<total_clauses, idx, risky_count, risk_breakdown,
                            clauses_seen, scoreVars, cleanVars, rateVars, textVars, stageVars>>
        ELSE StartLoop("api_analyze_text", n)

ApiStep ==
    /\ handler = "api_analyze_text" /\ pc = "loop" /\ idx < total_clauses
    /\ \E c \in DocClauses :
          LET r == score_clause_simple_app(c)
          IN  LoopStep(r.is_risky, r.tags)

ApiFinish ==
    /\ handler = "api_analyze_text" /\ pc = "loop" /\ idx = total_clauses
    /\ LET risky_percent == RiskyPercent(risky_count, total_clauses)
       IN  Finish([ok |-> TRUE,
                   total_clauses |-> total_clauses,
                   risky_clauses |-> risky_count,
                   percent |-> risky_percent,
                   risky_percent |-> risky_percent,
                   overall_rating |-> overall_rating_from_percent(risky_percent),
                   risk_breakdown |-> risk_breakdown])

----
\* db_ingest.insert_document_and_clauses, up to the values of the documents row
IngestStart == \E n \in 0..MaxClauses : StartLoop("insert_document_and_clauses", n)

IngestStep ==
    /\ handler = "insert_document_and_clauses" /\ pc = "loop" /\ idx < total_clauses
    /\ \E c \in DocClauses :
          LET r == score_clause_simple_db(c)
          IN  LoopStep(r.is_risky, <<>>)

IngestFinish ==
    /\ handler = "insert_document_and_clauses" /\ pc = "loop" /\ idx = total_clauses
    /\ LET risky_percent == RiskyPercent(risky_count, total_clauses)
       IN  Finish([ok |-> TRUE,
                   total_clauses |-> total_clauses,
                   risky_clauses |-> risky_count,
                   percent |-> risky_percent,
                   risky_percent |-> Frac(Round2(risky_percent), 100),
                   overall_rating |-> grade_from_percent(risky_percent)])

----
\* risk_summary.main
SummaryStart ==
    \E n \in 0..MaxClauses :
        IF n = 0
        THEN \* "No clauses found in scored CSV."
             /\ pc = "idle"
             /\ handler' = "risk_summary"
             /\ pc' = "done"
             /\ summary' = [ok |-> FALSE, why |-> "No clauses found in scored CSV."]
             /\ UNCHANGED <<total_clauses, idx, risky_count, risk_breakdown,
                            clauses_seen, scoreVars, cleanVars, rateVars, textVars, stageVars>>
        ELSE StartLoop("risk_summary", n)

SummaryStep ==
    /\ handler = "risk_summary" /\ pc = "loop" /\ idx < total_clauses
    /\ \E r \in DocRows :
          LoopStep(StripUpper(r.model_is_risky) = "TRUE", r.model_risk_reason)

SummaryFinish ==
    /\ handler = "risk_summary" /\ pc = "loop" /\ idx = total_clauses
    /\ LET risky_pct == RiskyPct(risky_count, total_clauses)
       IN  Finish([ok |-> TRUE,
                   total_clauses |-> total_clauses,
                   risky_clauses |-> risky_count,
                   percent |-> risky_pct,
                   risky_percent |-> Frac(Round2(risky_pct), 100),
                   overall_rating |-> SummaryRating(risky_pct),
                   risk_breakdown |-> risk_breakdown])

(***************************************************************************)
(* The normalizer: Final_text_extractor.clean_text                         *)
(*                                                                         *)
(* A text is a sequence of characters; "SHY" is the soft hyphen U+00AD.    *)
(***************************************************************************)
NL == "\n"
SHY == "SHY"

Digits == {"1"}
Letters == {"P", "a", "g", "e", "H", "E", "A", "D", "R", "F", "O", "T", "x"}

Chars == Letters \cup Digits \cup {"_", " ", "-", NL, SHY}

\* \d, \w and . of the re module
DigitChars == Digits
WordChars == Letters \cup Digits \cup {"_"}
DotChars == Chars \ {NL}
\* what str.strip() removes
IsSpace(c) == c \in {" ", NL}

\* the pieces raw texts are made of
RawPieces ==
    { <<"P", "a", "g", "e", " ">>,
      <<"1">>,
      <<"H", "E", "A", "D", "E", "R">>,
      <<"F", "O", "O", "T", "E", "R">>,
      <<"x">>,
      <<" ">>,
      <<NL>>,
      <<"-">>,
      <<SHY>>,
      <<"x", NL>>,
      <<"x", "-", NL>> }

RawTexts == {Flatten(ps) : ps \in SeqsUpTo(RawPieces, MaxRawPieces)}

\* t[i..] starts with w
StartsWith(t, i, w) ==
    /\ i + Len(w) - 1 <= Len(t)
    /\ \A j \in 1..Len(w) : t[i + j - 1] = w[j]

\* the length of the longest run t[i..] of characters of the class S
RECURSIVE RunLen(_, _, _)
RunLen(t, i, S) ==
    IF i <= Len(t) /\ t[i] \in S THEN 1 + RunLen(t, i + 1, S) ELSE 0

\* the length of the match of (Page \d+|HEADER.*|FOOTER.*) at t[i..], 0 if none
HeaderMatchLen(t, i) ==
    IF StartsWith(t, i, <<"P", "a", "g", "e", " ">>) /\ RunLen(t, i + 5, DigitChars) > 0
    THEN 5 + RunLen(t, i + 5, DigitChars)
    ELSE IF StartsWith(t, i, <<"H", "E", "A", "D", "E", "R">>)
    THEN 6 + RunLen(t, i + 6, DotChars)
    ELSE IF StartsWith(t, i, <<"F", "O", "O", "T", "E", "R">>)
    THEN 6 + RunLen(t, i + 6, DotChars)
    ELSE 0

\* re.sub(r'(Page \d+|HEADER.*|FOOTER.*)', '', text), from position i on
RECURSIVE RemoveHeadersFrom(_, _)
RemoveHeadersFrom(t, i) ==
    IF i > Len(t) THEN <<>>
    ELSE LET n == HeaderMatchLen(t, i)
         IN  IF n > 0 THEN RemoveHeadersFrom(t, i + n)
             ELSE <<t[i]>> \o RemoveHeadersFrom(t, i + 1)

RemoveHeaders(t) == RemoveHeadersFrom(t, 1)

\* the match of (\w+)-\n(\w+) at t[i..]: the lengths of the two words,
\* [w1 |-> 0] if none
HyphenMatch(t, i) ==
    LET w1 == RunLen(t, i, WordChars)
        w2 == RunLen(t, i + w1 + 2, WordChars)
    IN  IF w1 > 0 /\ StartsWith(t, i + w1, <<"-", NL>>) /\ w2 > 0
        THEN [w1 |-> w1, w2 |-> w2]
        ELSE [w1 |-> 0, w2 |-> 0]

\* re.sub(r'(\w+)-\n(\w+)', r'\1\2', text), from position i on
RECURSIVE JoinHyphensFrom(_, _)
JoinHyphensFrom(t, i) ==
    IF i > Len(t) THEN <<>>
    ELSE LET m == HyphenMatch(t, i)
         IN  IF m.w1 > 0
             THEN SubSeq(t, i, i + m.w1 - 1)
                  \o SubSeq(t, i + m.w1 + 2, i + m.w1 + 1 + m.w2)
                  \o JoinHyphensFrom(t, i + m.w1 + 2 + m.w2)
             ELSE <<t[i]>> \o JoinHyphensFrom(t, i + 1)

JoinHyphens(t) == JoinHyphensFrom(t, 1)

\* re.sub(r'[­]', '', text)
RemoveSoftHyphens(t) == SelectSeq(t, LAMBDA c : c # SHY)

\* str.splitlines()
RECURSIVE SplitLines(_)
SplitLines(t) ==
    IF t = <<>> THEN <<>>
    ELSE LET k == RunLen(t, 1, DotChars)
         IN  IF k = Len(t) THEN <<t>>
             ELSE <<SubSeq(t, 1, k)>> \o SplitLines(SubSeq(t, k + 2, Len(t)))

\* list(dict.fromkeys(lines))
UniqueLinesLastKept(lines) ==
    LET keep == {i \in 1..Len(lines) : \A j \in (i + 1)..Len(lines) : lines[j] # lines[i]}
        pos(k) == CHOOSE i \in keep : Cardinality({j \in keep : j <= i}) = k
    IN  [k \in 1..Cardinality(keep) |-> lines[pos(k)]]

\* list(dict.fromkeys(lines)), seen being the keys so far
RECURSIVE UniqueFrom(_, _)
UniqueFrom(lines, seen) ==
    IF lines = <<>> THEN <<>>
    ELSE IF Head(lines) \in seen THEN UniqueFrom(Tail(lines), seen)
    ELSE <<Head(lines)>> \o UniqueFrom(Tail(lines), seen \cup {Head(lines)})

UniqueLines(lines) == UniqueFrom(lines, {})

\* "\n".join(lines)
RECURSIVE JoinLines(_)
JoinLines(lines) ==
    IF lines = <<>> THEN <<>>
    ELSE IF Len(lines) = 1 THEN Head(lines)
    ELSE Head(lines) \o <<NL>> \o JoinLines(Tail(lines))

\* str.strip()
RECURSIVE Strip(_)
Strip(t) ==
    IF t = <<>> THEN t
    ELSE IF IsSpace(Head(t)) THEN Strip(Tail(t))
    ELSE IF IsSpace(t[Len(t)]) THEN Strip(SubSeq(t, 1, Len(t) - 1))
    ELSE t

\* lines, the list clean_text hands to dict.fromkeys
LinesOf(text) ==
    SplitLines(RemoveSoftHyphens(JoinHyphens(RemoveHeaders(text))))

clean_text(text) ==
    LET t1 == RemoveHeaders(text)
        t2 == JoinHyphens(t1)
        t3 == RemoveSoftHyphens(t2)
        lines == SplitLines(t3)
        unique_lines == UniqueLines(lines)
        t4 == JoinLines(unique_lines)
    IN  Strip(t4)

\* clean_text run on the raw text, then again on what it returned
CleanText ==
    /\ ct_pass < MaxPasses
    /\ ct_out' = clean_text(ct_out)
    /\ ct_first' = IF ct_pass = 0 THEN ct_out' ELSE ct_first
    /\ ct_lines' = IF ct_pass = 0 THEN LinesOf(ct_out) ELSE ct_lines
    /\ ct_unique' = IF ct_pass = 0 THEN UniqueLines(LinesOf(ct_out)) ELSE ct_unique
    /\ ct_pass' = ct_pass + 1
    /\ UNCHANGED <<ct_in, scoreVars, summaryVars, rateVars, textVars, stageVars>>

(***************************************************************************)
(* The extractor: Final_text_extractor.extract_text_from_pdf               *)
(*                                                                         *)
(* A PDF is what the libraries do with it: whether PdfReader opens it,     *)
(* whether convert_from_path renders it, and for every page what           *)
(* page.extract_text() and pytesseract.image_to_string() return or that    *)
(* they raise. Direct text is made of "a" and " ", OCR text of "b".        *)
(***************************************************************************)
\* what page.extract_text() does: raises, returns nothing, blank or text
DirectResults ==
    { [ok |-> FALSE, text |-> <<>>],
      [ok |-> TRUE, text |-> <<>>],
      [ok |-> TRUE, text |-> <<" ">>],
      [ok |-> TRUE, text |-> <<"a">>] }

\* what pytesseract.image_to_string(img) does: raises, returns nothing or text
OcrResults ==
    { [ok |-> FALSE, text |-> <<>>],
      [ok |-> TRUE, text |-> <<>>],
      [ok |-> TRUE, text |-> <<"b">>] }

PageKinds == [direct : DirectResults, ocr : OcrResults]

Pdfs == [opens : BOOLEAN, renders : BOOLEAN, pages : SeqsUpTo(PageKinds, MaxPages)]

NoPdf == [opens |-> FALSE, renders |-> FALSE, pages |-> <<>>]

\* print(f'[ERROR] Could not extract text from {pdf_file}: {e}')
ErrorLine(step) == <<"[ERROR] Could not extract text", step>>

\* except Exception as e: the steps of the try block whose failure it catches
CaughtOpenOnly(step) == step = "open"

Caught(step) == TRUE

\* a step of the try block raises
Raise(step) ==
    IF Caught(step)
    THEN /\ ex_log' = Append(ex_log, ErrorLine(step))
         /\ ex_pc' = "return"
         /\ UNCHANGED <<ex_pdf, ex_i, ex_text, ex_done>>
    ELSE /\ ex_pc' = "raised"
         /\ UNCHANGED <<ex_pdf, ex_i, ex_text, ex_log, ex_done>>

\* text = ""; reader = PyPDF2.PdfReader(pdf_file)
OpenPdf ==
    /\ ex_pc = "start"
    /\ IF ex_pdf.opens
       THEN /\ ex_pc' = "direct"
            /\ UNCHANGED <<ex_pdf, ex_i, ex_text, ex_log, ex_done>>
       ELSE Raise("open")
    /\ UNCHANGED <<scoreVars, summaryVars, cleanVars, rateVars, segVars, csvVars, stageVars>>

\* for page in reader.pages: one turn
DirectPage ==
    /\ ex_pc = "direct" /\ ex_i < Len(ex_pdf.pages)
    /\ LET page_text == ex_pdf.pages[ex_i + 1].direct
       IN  IF ~page_text.ok THEN Raise("extract_text")
           ELSE /\ ex_i' = ex_i + 1
                /\ IF page_text.text # <<>>
                   THEN /\ ex_text' = ex_text \o page_text.text \o <<NL>>
                        /\ ex_done' = Append(ex_done, [page |-> ex_i + 1, method |-> "direct"])
                   ELSE UNCHANGED <<ex_text, ex_done>>
                /\ UNCHANGED <<ex_pdf, ex_pc, ex_log>>
    /\ UNCHANGED <<scoreVars, summaryVars, cleanVars, rateVars, segVars, csvVars, stageVars>>

\* if not text.strip():
QualityGate ==
    /\ ex_pc = "direct" /\ ex_i = Len(ex_pdf.pages)
    /\ ex_pc' = IF Strip(ex_text) = <<>> THEN "convert" ELSE "return"
    /\ UNCHANGED <<ex_pdf, ex_i, ex_text, ex_log, ex_done>>
    /\ UNCHANGED <<scoreVars, summaryVars, cleanVars, rateVars, segVars, csvVars, stageVars>>

\* pages = convert_from_path(pdf_file)
ConvertFromPath ==
    /\ ex_pc = "convert"
    /\ IF ex_pdf.renders
       THEN /\ ex_pc' = "ocr"
            /\ ex_i' = 0
            /\ UNCHANGED <<ex_pdf, ex_text, ex_log, ex_done>>
       ELSE Raise("convert_from_path")
    /\ UNCHANGED <<scoreVars, summaryVars, cleanVars, rateVars, segVars, csvVars, stageVars>>

\* for img in pages: one turn
OcrPage ==
    /\ ex_pc = "ocr" /\ ex_i < Len(ex_pdf.pages)
    /\ LET ocr_text == ex_pdf.pages[ex_i + 1].ocr
       IN  IF ~ocr_text.ok THEN Raise("image_to_string")
           ELSE /\ ex_i' = ex_i + 1
                /\ ex_text' = ex_text \o ocr_text.text
                /\ ex_done' = IF ocr_text.text # <<>>
                              THEN Append(ex_done, [page |-> ex_i + 1, method |-> "ocr"])
                              ELSE ex_done
                /\ UNCHANGED <<ex_pdf, ex_pc, ex_log>>
    /\ UNCHANGED <<scoreVars, summaryVars, cleanVars, rateVars, segVars, csvVars, stageVars>>

\* the OCR loop ends
OcrDone ==
    /\ ex_pc = "ocr" /\ ex_i = Len(ex_pdf.pages)
    /\ ex_pc' = "return"
    /\ UNCHANGED <<ex_pdf, ex_i, ex_text, ex_log, ex_done>>
    /\ UNCHANGED <<scoreVars, summaryVars, cleanVars, rateVars, segVars, csvVars, stageVars>>

\* return text
ReturnText ==
    /\ ex_pc = "return"
    /\ ex_pc' = "returned"
    /\ UNCHANGED <<ex_pdf, ex_i, ex_text, ex_log, ex_done>>
    /\ UNCHANGED <<scoreVars, summaryVars, cleanVars, rateVars, segVars, csvVars, stageVars>>

(***************************************************************************)
(* Clause segmentation: Final_text_extractor.segment_clauses and           *)
(* segment_text_to_csv                                                     *)
(*                                                                         *)
(* A sentence is a sequence of characters.                                 *)
(***************************************************************************)
SegLower == {"a", "c", "d", "e", "h", "i", "l", "n", "o", "p", "r", "s", "t", "u", "v", "w", "x"}
SegUpper == {"E", "L", "N", "S", "U"}
\* \w of the re module, on the characters sentences are made of
SegWordChars == SegLower \cup SegUpper \cup {"_"}

\* re.IGNORECASE: the lower-case form of a character
LowerChar(c) ==
    CASE c = "E" -> "e"
      [] c = "L" -> "l"
      [] c = "N" -> "n"
      [] c = "S" -> "s"
      [] c = "U" -> "u"
      [] OTHER -> c

\* the pieces sentences are made of
SegPieces ==
    { <<"h", "o", "w", "e", "v", "e", "r">>,
      <<" ", "E", "x", "c", "e", "p", "t", " ">>,
      <<"U", "N", "L", "E", "S", "S">>,
      <<"w", "h", "e", "r", "e", "a", "s">>,
      <<"p", "r", "o", "v", "i", "d", "e", "d", " ", "t", "h", "a", "t">>,
      <<"p", "r", "o", "v", "i", "d", "e", "d">>,
      <<" ">>,
      <<";">>,
      <<"x">>,
      <<",">> }

Sentences == {Flatten(ps) : ps \in SeqsUpTo(SegPieces, MaxSegPieces)}

\* patterns: ';' and the connectors, each between two \b
Semicolon == <<";">>

Connectors ==
    << <<"p", "r", "o", "v", "i", "d", "e", "d", " ", "t", "h", "a", "t">>,
       <<"e", "x", "c", "e", "p", "t">>,
       <<"u", "n", "l", "e", "s", "s">>,
       <<"h", "o", "w", "e", "v", "e", "r">>,
       <<"w", "h", "e", "r", "e", "a", "s">> >>

\* \b at position i of t: exactly one of t[i-1], t[i] is a word character
WordBoundary(t, i) ==
    LET before == i > 1 /\ i - 1 <= Len(t) /\ t[i - 1] \in SegWordChars
        after == i >= 1 /\ i <= Len(t) /\ t[i] \in SegWordChars
    IN  before # after

\* t[i..] starts with w, case ignored
StartsWithIgnoreCase(t, i, w) ==
    /\ i + Len(w) - 1 <= Len(t)
    /\ \A j \in 1..Len(w) : LowerChar(t[i + j - 1]) = w[j]

\* \bw\b matches at t[i..]
ConnectorAt(t, i, w) ==
    /\ StartsWithIgnoreCase(t, i, w)
    /\ WordBoundary(t, i)
    /\ WordBoundary(t, i + Len(w))

\* the length of the match of the combined regex at t[i..], 0 if none
BoundaryMatchLen(t, i) ==
    IF StartsWith(t, i, Semicolon) THEN 1
    ELSE LET hits == {k \in 1..Len(Connectors) : ConnectorAt(t, i, Connectors[k])}
         IN  IF hits = {} THEN 0
             ELSE Len(Connectors[CHOOSE k \in hits : \A h \in hits : k <= h])

\* re.split(regex, sentence, flags=re.IGNORECASE), from position i on, cur
\* being the piece since the last match
RECURSIVE SplitFrom(_, _, _)
SplitFrom(t, i, cur) ==
    IF i > Len(t) THEN <<cur>>
    ELSE LET n == BoundaryMatchLen(t, i)
         IN  IF n > 0 THEN <<cur>> \o SplitFrom(t, i + n, <<>>)
             ELSE SplitFrom(t, i + 1, Append(cur, t[i]))

ReSplit(t) == SplitFrom(t, 1, <<>>)

\* [cl.strip() for cl in ... if cl.strip()]
StripKeepEmpty(ps) == [k \in 1..Len(ps) |-> Strip(ps[k])]

RECURSIVE StripKeep(_)
StripKeep(ps) ==
    IF ps = <<>> THEN <<>>
    ELSE IF Strip(Head(ps)) # <<>> THEN <<Strip(Head(ps))>> \o StripKeep(Tail(ps))
    ELSE StripKeep(Tail(ps))

segment_clauses(sentence) == StripKeep(ReSplit(sentence))

SegmentClauses ==
    /\ ~seg_called
    /\ seg_clauses' = segment_clauses(seg_sentence)
    /\ seg_called' = TRUE
    /\ UNCHANGED <<seg_sentence, scoreVars, summaryVars, cleanVars, rateVars,
                   extractVars, csvVars, stageVars>>

----
\* the sentences spaCy finds in the documents handed to segment_text_to_csv
DocSentences ==
    { <<"x">>,
      <<"x", ";", "x">>,
      <<";">> }

Documents == SeqsUpTo(DocSentences, MaxSentences)

\* for ci, clause in enumerate(clauses, start=1): csv_rows.append({...})
RowsOf(si, sentence) ==
    LET clauses == segment_clauses(sentence)
    IN  [ci \in 1..Len(clauses) |->
            [Sentence_ID |-> si, Sentence |-> sentence,
             Clause_ID |-> ci, Clause |-> clauses[ci]]]

\* for si, sentence in enumerate(sentences, start=1): one turn
CsvSentence ==
    /\ ~csv_saved /\ csv_si < Len(csv_sentences)
    /\ csv_si' = csv_si + 1
    /\ csv_rows' = csv_rows \o RowsOf(csv_si + 1, csv_sentences[csv_si + 1])
    /\ UNCHANGED <<csv_sentences, csv_saved, scoreVars, summaryVars, cleanVars, rateVars,
                   extractVars, segVars, stageVars>>

\* df = pd.DataFrame(csv_rows); df.to_csv(output_csv, index=False)
CsvSave ==
    /\ ~csv_saved /\ csv_si = Len(csv_sentences)
    /\ csv_saved' = TRUE
    /\ UNCHANGED <<csv_sentences, csv_si, csv_rows, scoreVars, summaryVars, cleanVars,
                   rateVars, extractVars, segVars, stageVars>>

(***************************************************************************)
(* Punctuation-threshold segmentation: build_latest_clauses                *)
(***************************************************************************)
CR == "\r"
Punctuation == {".", "!", "?"}
\* \s and what str.strip() removes, on the characters of these texts
SpaceChars == {" ", NL, CR}

\* nineteen letters: one short of the minimum length
Word19 == [i \in 1..19 |-> "a"]

\* the pieces the texts of extracted_text_*.txt are made of
BuildPieces ==
    { Word19,
      Word19 \o <<".">>,
      <<"a">>,
      <<".">>,
      <<"!", " ">>,
      <<"?", NL>>,
      <<" ">>,
      <<NL>>,
      <<CR, NL>> }

BuildTexts == {Flatten(ps) : ps \in SeqsUpTo(BuildPieces, MaxBuildPieces)}

\* text.replace("\r\n", " ").replace("\n", " "), from position i on
RECURSIVE NormalizeFrom(_, _)
NormalizeFrom(t, i) ==
    IF i > Len(t) THEN <<>>
    ELSE IF StartsWith(t, i, <<CR, NL>>) THEN <<" ">> \o NormalizeFrom(t, i + 2)
    ELSE IF t[i] = NL THEN <<" ">> \o NormalizeFrom(t, i + 1)
    ELSE <<t[i]>> \o NormalizeFrom(t, i + 1)

\* re.split(r'(?<=[.!?])\s+', normalized), from position i on, cur being the
\* piece since the last match
RECURSIVE SplitAfterPunctuation(_, _, _)
SplitAfterPunctuation(t, i, cur) ==
    IF i > Len(t) THEN <<cur>>
    ELSE IF i > 1 /\ t[i - 1] \in Punctuation /\ t[i] \in SpaceChars
    THEN <<cur>> \o SplitAfterPunctuation(t, i + RunLen(t, i, SpaceChars), <<>>)
    ELSE SplitAfterPunctuation(t, i + 1, Append(cur, t[i]))

\* if len(clause) < 20: continue
TooShortOrEqual(clause) == Len(clause) <= 20

TooShort(clause) == Len(clause) < 20

\* for part in parts: clause = part.strip(); ...; clauses.append(clause)
RECURSIVE KeepLong(_)
KeepLong(parts) ==
    IF parts = <<>> THEN <<>>
    ELSE LET clause == Strip(Head(parts))
         IN  IF TooShort(clause) THEN KeepLong(Tail(parts))
             ELSE <<clause>> \o KeepLong(Tail(parts))

split_into_clauses(text) ==
    LET normalized == NormalizeFrom(text, 1)
        parts == SplitAfterPunctuation(normalized, 1, <<>>)
    IN  KeepLong(parts)

\* the rows write_clauses_csv writes under the header
write_clauses_csv(clauses) ==
    [k \in 1..Len(clauses) |->
        [clause_id |-> k, text |-> clauses[k], is_risky |-> "", risky_reason |-> ""]]

\* clauses = split_into_clauses(text)
SplitIntoClauses ==
    /\ bl_pc = "loaded"
    /\ bl_clauses' = split_into_clauses(bl_text)
    /\ bl_pc' = "split"
    /\ UNCHANGED <<bl_text, bl_rows, coreVars, monoVars, rulesVars, folderVars, pipeVars,
                   uploadVars, dbVars>>

\* write_clauses_csv(clauses, OUTPUT_CSV)
WriteClausesCsv ==
    /\ bl_pc = "split"
    /\ bl_rows' = write_clauses_csv(bl_clauses)
    /\ bl_pc' = "written"
    /\ UNCHANGED <<bl_text, bl_clauses, coreVars, monoVars, rulesVars, folderVars, pipeVars,
                   uploadVars, dbVars>>


(***************************************************************************)
(* Two clauses scored by the same scorer                                   *)
(***************************************************************************)
\* the pieces of the clauses scored twice
MonoPieces ==
    { <<"the", "customer">>,
      <<"we", "may", "share", "your", "personal", "data">>,
      <<"may", "close", "your", "account">>,
      <<"without", "prior", "notice">>,
      <<"you", "agree", "to", "indemnify">>,
      <<"processing", "fee">> }

\* s with x put after its first k elements
InsertAt(s, k, x) == SubSeq(s, 1, k) \o <<x>> \o SubSeq(s, k + 1, Len(s))

\* a clause and the clause obtained by putting one more piece into it
ClausePairs ==
    {<<Flatten(x[1]), Flatten(InsertAt(x[1], x[3], x[2]))>> :
        x \in {y \in SeqsUpTo(MonoPieces, MaxPieces - 1) \X MonoPieces \X (0..MaxPieces) :
                  y[3] <= Len(y[1])}}

\* what the tagger gives for the two clauses: a tag list and the list with
\* one more tag in it
TagListPairs ==
    {<<x[1], InsertAt(x[1], x[3], x[2])>> :
        x \in {y \in SeqsUpTo(Tags, MaxTags - 1) \X Tags \X (0..MaxTags) :
                  y[3] <= Len(y[1])}}

\* the rows of a table whose phrase occurs in the lowered text
MatchedRows(patterns, text) ==
    {i \in 1..Len(patterns) : Contains(Lower(text), patterns[i].phrase)}

\* the table and the result of each banded scorer
BandedTable(fn) ==
    IF fn = "score_sentence_simple" THEN RISKY_PATTERNS_detector
    ELSE IF fn = "engine.score_clause_simple" THEN RISKY_PATTERNS_engine
    ELSE IF fn = "db_ingest.score_clause_simple" THEN RISKY_PATTERNS_db
    ELSE RISKY_PATTERNS_app

BandedResult(fn, text) ==
    IF fn = "score_sentence_simple" THEN score_sentence_simple(text)
    ELSE IF fn = "engine.score_clause_simple" THEN score_clause_simple_engine(text)
    ELSE IF fn = "db_ingest.score_clause_simple" THEN score_clause_simple_db(text)
    ELSE score_clause_simple_app(text)

\* one banded scorer called on both clauses
ScorePairBanded ==
    /\ mono_res = <<>>
    /\ \E fn \in BandedFns :
          mono_res' = [regime |-> "banded", fn |-> fn,
                       m1 |-> MatchedRows(BandedTable(fn), mono_c1),
                       m2 |-> MatchedRows(BandedTable(fn), mono_c2),
                       s1 |-> BandedResult(fn, mono_c1).score,
                       s2 |-> BandedResult(fn, mono_c2).score]
    /\ UNCHANGED <<mono_c1, mono_c2, coreVars, buildVars, rulesVars, folderVars, pipeVars,
                   uploadVars, dbVars>>

\* analyze_single_clause called on both clauses, the tagger giving tags1 for
\* the first and tags2 for the second
ScorePairWeighted ==
    /\ mono_res = <<>>
    /\ \E tp \in TagListPairs :
          mono_res' = [regime |-> "weighted", fn |-> "analyze_single_clause",
                       m1 |-> tp[1], m2 |-> tp[2],
                       s1 |-> analyze_single_clause(mono_c1, 1, tp[1]).base_score,
                       s2 |-> analyze_single_clause(mono_c2, 1, tp[2]).base_score]
    /\ UNCHANGED <<mono_c1, mono_c2, coreVars, buildVars, rulesVars, folderVars, pipeVars,
                   uploadVars, dbVars>>

(***************************************************************************)
(* The pipeline driver: run_pipeline                                       *)
(***************************************************************************)
\* the stage scripts in the order main reaches them
StageScripts ==
    << "Final_text_extractor.py", "build_latest_clauses.py", "risky_phrase_detector.py",
       "risk_summary.py", "export_risky_clauses.py", "auto_learn_risky_words.py" >>

Stages == 1..Len(StageScripts)

\* the stages whose else branch is sys.exit(1)
Required == {2, 3}

\* result.returncode: an exit code, or minus the signal that killed the stage
ReturnCodes == {0, 1, 2, 255, -9}

\* the exit status the driver's caller sees after sys.exit(code)
ExitStatusOne(code) == 1

ExitStatus(code) == code % 256

Running == pl_exit = -1

\* if os.path.exists(script): run([...], desc), the stage returning 0
StageSucceeds ==
    /\ Running /\ pl_stage \in Stages /\ pl_exists[pl_stage]
    /\ pl_started' = Append(pl_started, [stage |-> pl_stage, returncode |-> 0])
    /\ pl_stage' = pl_stage + 1
    /\ UNCHANGED <<pl_exists, pl_exit, coreVars, buildVars, monoVars, rulesVars, folderVars,
                   uploadVars, dbVars>>

\* run: if result.returncode != 0: sys.exit(result.returncode)
StageFails ==
    /\ Running /\ pl_stage \in Stages /\ pl_exists[pl_stage]
    /\ \E rc \in ReturnCodes \ {0} :
          /\ pl_started' = Append(pl_started, [stage |-> pl_stage, returncode |-> rc])
          /\ pl_exit' = ExitStatus(rc)
    /\ UNCHANGED <<pl_exists, pl_stage, coreVars, buildVars, monoVars, rulesVars, folderVars,
                   uploadVars, dbVars>>

\* else: print("[WARN] ... skipping ...")
StageSkipped ==
    /\ Running /\ pl_stage \in Stages /\ ~pl_exists[pl_stage]
    /\ pl_stage \notin Required
    /\ pl_stage' = pl_stage + 1
    /\ UNCHANGED <<pl_exists, pl_started, pl_exit, coreVars, buildVars, monoVars, rulesVars,
                   folderVars, uploadVars, dbVars>>

\* else: print("[ERROR] ... Cannot continue."); sys.exit(1)
StageMissing ==
    /\ Running /\ pl_stage \in Stages /\ ~pl_exists[pl_stage]
    /\ pl_stage \in Required
    /\ pl_exit' = ExitStatus(1)
    /\ UNCHANGED <<pl_exists, pl_stage, pl_started, coreVars, buildVars, monoVars, rulesVars,
                   folderVars, uploadVars, dbVars>>

\* main returns after the last stage
PipelineComplete ==
    /\ Running /\ pl_stage = Len(StageScripts) + 1
    /\ pl_exit' = 0
    /\ UNCHANGED <<pl_exists, pl_stage, pl_started, coreVars, buildVars, monoVars, rulesVars,
                   folderVars, uploadVars, dbVars>>

(***************************************************************************)
(* The database transaction of db_ingest                                   *)
(***************************************************************************)
\* the text column of clauses_scored.csv (row.get("text") or "")
CsvTexts == DocClauses \cup {<<>>}

\* read_clauses_csv(clauses_path)
ClausesCsvs == SeqsUpTo(CsvTexts, MaxCsvRows)

\* the committed tables before the run: empty, or holding an earlier document
NoTables == [documents |-> {}, clauses |-> {}]

EarlierTables ==
    [documents |-> {[id |-> 1, original_filename |-> "earlier.pdf", total_clauses |-> 1,
                     risky_clauses |-> 0, overall_rating |-> "A"]},
     clauses |-> {[document_id |-> 1, row |-> 1, text |-> <<"the", "customer">>,
                   model_is_risky |-> FALSE, model_risk_reason |-> <<>>,
                   model_risk_score |-> 0]}]

InitialTables == {NoTables, EarlierTables}

\* RETURNING id: the next value of the documents id sequence
NextDocumentId(tables) == Cardinality(tables.documents) + 1

\* row["model_is_risky"] = "TRUE" if is_risky else "FALSE"
RiskyCell(is_risky) == IF is_risky THEN "TRUE" ELSE "FALSE"

\* step 4: the model columns of every row recomputed, and the counters
Recomputed(rows) ==
    [k \in 1..Len(rows) |->
        LET r == score_clause_simple_db(rows[k])
        IN  [text |-> rows[k],
             model_is_risky |-> RiskyCell(r.is_risky),
             model_risk_reason |-> r.tags,
             model_risk_score |-> r.score]]

RiskyRows(rows) == {k \in 1..Len(rows) : score_clause_simple_db(rows[k]).is_risky}

\* the rows the transaction has inserted and not yet committed
NoTx == [documents |-> {}, clauses |-> {}]

\* conn.commit(): the rows of the transaction become rows of the tables
CommitDocumentsOnly(tables, tx) ==
    [documents |-> tables.documents \cup tx.documents, clauses |-> tables.clauses]

Commit(tables, tx) ==
    [documents |-> tables.documents \cup tx.documents,
     clauses |-> tables.clauses \cup tx.clauses]

\* steps 4 and 5: the rows recomputed, then INSERT INTO documents ... RETURNING id
InsertDocument ==
    /\ db_pc = "start"
    /\ LET rows == Recomputed(db_csv)
           total == Len(db_csv)
           risky == Cardinality(RiskyRows(db_csv))
           risky_percent == RiskyPercent(risky, total)
       IN  /\ db_csv' = rows
           /\ db_tx' = [documents |-> {[id |-> NextDocumentId(db_tables),
                                        original_filename |-> "upload.pdf",
                                        total_clauses |-> total,
                                        risky_clauses |-> risky,
                                        overall_rating |-> grade_from_percent(risky_percent)]},
                        clauses |-> {}]
    /\ db_pc' = "clauses"
    /\ db_i' = 0
    /\ UNCHANGED <<db_tables, db_exit, coreVars, buildVars, monoVars, rulesVars, folderVars,
                   pipeVars, uploadVars>>

\* step 6: INSERT INTO clauses for the next row
InsertClause ==
    /\ db_pc = "clauses" /\ db_i < Len(db_csv)
    /\ LET row == db_csv[db_i + 1]
           document_id == (CHOOSE d \in db_tx.documents : TRUE).id
       IN  db_tx' = [db_tx EXCEPT !.clauses = @ \cup
                        {[document_id |-> document_id, row |-> db_i + 1, text |-> row.text,
                          model_is_risky |-> StripUpper(row.model_is_risky) = "TRUE",
                          model_risk_reason |-> row.model_risk_reason,
                          model_risk_score |-> row.model_risk_score]}]
    /\ db_i' = db_i + 1
    /\ UNCHANGED <<db_csv, db_pc, db_tables, db_exit, coreVars, buildVars, monoVars, rulesVars,
                   folderVars, pipeVars, uploadVars>>

\* conn.commit() after the last clause
CommitTransaction ==
    /\ db_pc = "clauses" /\ db_i = Len(db_csv)
    /\ db_tables' = Commit(db_tables, db_tx)
    /\ db_tx' = NoTx
    /\ db_pc' = "done"
    /\ db_exit' = 0
    /\ UNCHANGED <<db_csv, db_i, coreVars, buildVars, monoVars, rulesVars, folderVars,
                   pipeVars, uploadVars>>

\* an execute or the commit raises: except Exception: conn.rollback();
\* conn.close(); sys.exit(1)
IngestFails ==
    /\ db_pc \in {"start", "clauses"}
    /\ db_pc = "start" => db_csv' = Recomputed(db_csv)
    /\ db_pc # "start" => db_csv' = db_csv
    /\ db_tx' = NoTx
    /\ db_pc' = "failed"
    /\ db_exit' = 1
    /\ UNCHANGED <<db_i, db_tables, coreVars, buildVars, monoVars, rulesVars, folderVars,
                   pipeVars, uploadVars>>

(***************************************************************************)
(* The folder driver: process_folder and process_pdf                       *)
(***************************************************************************)
PageOne == <<"P", "a", "g", "e", " ", "1">>

\* what extract_text_from_pdf returns for the documents of a folder
ExtractedTexts ==
    { <<>>,
      <<" ", NL>>,
      PageOne \o <<NL>>,
      <<"x", NL>>,
      PageOne \o <<NL, "x", NL>> }

\* the name of the k-th PDF of sorted(pdf_files), and of the PDF made of the
\* images
PdfName(k) == <<"document", k>>

CombinedName == <<"combined_document">>

\* the new PDFs of a folder in sorted order, followed by the PDF combined from
\* its images if it holds any
Folders ==
    {[k \in 1..Len(x[1]) |-> [name |-> PdfName(k), text |-> x[1][k], images |-> FALSE]]
        \o x[2] :
        x \in SeqsUpTo(ExtractedTexts, MaxDocs)
               \X ({<<>>} \cup {<<[name |-> CombinedName, text |-> t, images |-> TRUE]>> :
                                 t \in ExtractedTexts})}

\* the outputs of process_pdf
OutputKinds == {"extracted_text", "sentence_clause_segments", "entities"}

\* timestamp = datetime.now().strftime(...): taken once in process_folder and
\* handed to every process_pdf of the run
timestamp == "20260101_000000"

\* f'<kind>_<timestamp>' in folder_path
OutputPath(kind, ts) == <<kind, ts>>

NoFiles == [path \in {OutputPath(kind, timestamp) : kind \in OutputKinds} |-> <<>>]

\* the file at txt_output
TextFile == fd_files[OutputPath("extracted_text", timestamp)]

\* the document process_folder is at
CurrentDoc == fd_pdfs[fd_i]

\* after process_pdf returns: the images are moved once their PDF is done,
\* then the loop goes on
AfterProcessPdf == IF CurrentDoc.images THEN "images" ELSE "next"

\* for pdf_path in sorted(pdf_files): process_pdf(...), then the combined PDF
NextPdf ==
    /\ fd_pc = "next"
    /\ fd_i' = fd_i + 1
    /\ fd_pc' = IF fd_i < Len(fd_pdfs) THEN "extract" ELSE "done"
    /\ UNCHANGED <<fd_pdfs, fd_text, fd_files, fd_written, fd_processed, fd_log, coreVars,
                   buildVars, monoVars, rulesVars, pipeVars, uploadVars, dbVars>>

\* text = extract_text_from_pdf(pdf_path); if not text.strip(): print, return
NoTextExtracted ==
    /\ fd_pc = "extract"
    /\ Strip(CurrentDoc.text) = <<>>
    /\ fd_log' = Append(fd_log, [doc |-> CurrentDoc.name, line |-> "[INFO] No text extracted."])
    /\ fd_pc' = AfterProcessPdf
    /\ UNCHANGED <<fd_pdfs, fd_i, fd_text, fd_files, fd_written, fd_processed, coreVars,
                   buildVars, monoVars, rulesVars, pipeVars, uploadVars, dbVars>>

\* text = clean_text(text); with open(txt_output, 'w') ...: f.write(text)
WriteText ==
    /\ fd_pc = "extract"
    /\ Strip(CurrentDoc.text) # <<>>
    /\ fd_text' = clean_text(CurrentDoc.text)
    /\ fd_files' = [fd_files EXCEPT ![OutputPath("extracted_text", timestamp)] =
                        [doc |-> CurrentDoc.name, content |-> fd_text']]
    /\ fd_written' = fd_written \cup {<<CurrentDoc.name, "extracted_text">>}
    /\ fd_pc' = "segment"
    /\ UNCHANGED <<fd_pdfs, fd_i, fd_processed, fd_log, coreVars, buildVars, monoVars,
                   rulesVars, pipeVars, uploadVars, dbVars>>

\* segment_text_to_csv(txt_output, clause_output)
WriteClauses ==
    /\ fd_pc = "segment"
    /\ fd_files' = [fd_files EXCEPT ![OutputPath("sentence_clause_segments", timestamp)] =
                        [doc |-> CurrentDoc.name, content |-> TextFile.content]]
    /\ fd_written' = fd_written \cup {<<CurrentDoc.name, "sentence_clause_segments">>}
    /\ fd_pc' = "entities"
    /\ UNCHANGED <<fd_pdfs, fd_i, fd_text, fd_processed, fd_log, coreVars, buildVars, monoVars,
                   rulesVars, pipeVars, uploadVars, dbVars>>

\* nlp_operations(txt_output, entity_output)
WriteEntities ==
    /\ fd_pc = "entities"
    /\ fd_files' = [fd_files EXCEPT ![OutputPath("entities", timestamp)] =
                        [doc |-> CurrentDoc.name, content |-> TextFile.content]]
    /\ fd_written' = fd_written \cup {<<CurrentDoc.name, "entities">>}
    /\ fd_pc' = "move"
    /\ UNCHANGED <<fd_pdfs, fd_i, fd_text, fd_processed, fd_log, coreVars, buildVars, monoVars,
                   rulesVars, pipeVars, uploadVars, dbVars>>

\* move_to_processed(pdf_path, os.path.join(folder_path, 'processed'))
MoveToProcessed ==
    /\ fd_pc = "move"
    /\ fd_processed' = fd_processed \cup {CurrentDoc.name}
    /\ fd_pc' = AfterProcessPdf
    /\ UNCHANGED <<fd_pdfs, fd_i, fd_text, fd_files, fd_written, fd_log, coreVars, buildVars,
                   monoVars, rulesVars, pipeVars, uploadVars, dbVars>>

\* for img_path in files: move_to_processed(img_path, processed_folder)
MoveImages ==
    /\ fd_pc = "images"
    /\ fd_processed' = fd_processed \cup {<<"images">>}
    /\ fd_pc' = "next"
    /\ UNCHANGED <<fd_pdfs, fd_i, fd_text, fd_files, fd_written, fd_log, coreVars, buildVars,
                   monoVars, rulesVars, pipeVars, uploadVars, dbVars>>

(***************************************************************************)
(* The rule resources: advanced_risk_logic and auto_learn_risky_words      *)
(***************************************************************************)
\* a global that is None, and one holding the resource read from version v
\* of its file
Unset == <<>>

Loaded(v) == <<v>>

\* _vocab = None; _templates = None; ... (the other two resources are loaded
\* and stored together with the templates)
NoGlobals == [vocab |-> Unset, templates |-> Unset]

\* the threads of the process that call analyze_single_clause
Threads == {"t1", "t2"}

IdleReader == [pc |-> "idle", vocab |-> Unset, templates |-> Unset, since |-> 0,
               used_vocab |-> Unset, used_templates |-> Unset]

\* auto_learn_risky_words.main has new tokens to write
LearnerStarts ==
    /\ learner_pc = "idle" /\ refreshes < MaxRefreshes
    /\ learner_pc' = "save_vocab"
    /\ UNCHANGED <<file_vocab, file_templates, module_globals, refreshes, reader, coreVars,
                   buildVars, monoVars, folderVars, pipeVars, uploadVars, dbVars>>

\* save_vocab(vocab)
SaveVocab ==
    /\ learner_pc = "save_vocab"
    /\ file_vocab' = file_vocab + 1
    /\ learner_pc' = "save_templates"
    /\ UNCHANGED <<file_templates, module_globals, refreshes, reader, coreVars, buildVars,
                   monoVars, folderVars, pipeVars, uploadVars, dbVars>>

\* save_templates(templates), which ends the refresh
SaveTemplates ==
    /\ learner_pc = "save_templates"
    /\ file_templates' = file_templates + 1
    /\ refreshes' = refreshes + 1
    /\ learner_pc' = "idle"
    /\ UNCHANGED <<file_vocab, module_globals, reader, coreVars, buildVars, monoVars,
                   folderVars, pipeVars, uploadVars, dbVars>>

\* analyze_single_clause is called in thread t
CallAnalyze(t) ==
    /\ reader[t].pc = "idle"
    /\ reader' = [reader EXCEPT ![t] = [IdleReader EXCEPT !.pc = "ensure_loaded",
                                                          !.since = refreshes]]
    /\ UNCHANGED <<file_vocab, file_templates, module_globals, learner_pc, refreshes, coreVars,
                   buildVars, monoVars, folderVars, pipeVars, uploadVars, dbVars>>

\* _ensure_loaded: if _vocab is None
EnsureLoaded(t) ==
    /\ reader[t].pc = "ensure_loaded"
    /\ reader' = [reader EXCEPT ![t].pc =
                      IF module_globals.vocab = Unset THEN "load_vocab" ELSE "tag"]
    /\ UNCHANGED <<file_vocab, file_templates, module_globals, learner_pc, refreshes, coreVars,
                   buildVars, monoVars, folderVars, pipeVars, uploadVars, dbVars>>

\* _load_resources: vocab = load_vocab()
LoadVocab(t) ==
    /\ reader[t].pc = "load_vocab"
    /\ reader' = [reader EXCEPT ![t].vocab = Loaded(file_vocab), ![t].pc = "load_templates"]
    /\ UNCHANGED <<file_vocab, file_templates, module_globals, learner_pc, refreshes, coreVars,
                   buildVars, monoVars, folderVars, pipeVars, uploadVars, dbVars>>

\* _load_resources: templates = load_templates(), and the two other resources
LoadTemplates(t) ==
    /\ reader[t].pc = "load_templates"
    /\ reader' = [reader EXCEPT ![t].templates = Loaded(file_templates),
                                 ![t].pc = "store_vocab"]
    /\ UNCHANGED <<file_vocab, file_templates, module_globals, learner_pc, refreshes, coreVars,
                   buildVars, monoVars, folderVars, pipeVars, uploadVars, dbVars>>

\* _vocab, _templates, ... = _load_resources(): the first global is stored
StoreVocab(t) ==
    /\ reader[t].pc = "store_vocab"
    /\ module_globals' = [module_globals EXCEPT !.vocab = reader[t].vocab]
    /\ reader' = [reader EXCEPT ![t].pc = "store_templates"]
    /\ UNCHANGED <<file_vocab, file_templates, learner_pc, refreshes, coreVars, buildVars,
                   monoVars, folderVars, pipeVars, uploadVars, dbVars>>

\* ... then the other globals
StoreTemplates(t) ==
    /\ reader[t].pc = "store_templates"
    /\ module_globals' = [module_globals EXCEPT !.templates = reader[t].templates]
    /\ reader' = [reader EXCEPT ![t].pc = "tag"]
    /\ UNCHANGED <<file_vocab, file_templates, learner_pc, refreshes, coreVars, buildVars,
                   monoVars, folderVars, pipeVars, uploadVars, dbVars>>

\* tags = detect_risks_for_sentence(clause_text, _vocab, _templates, ...)
DetectRisks(t) ==
    /\ reader[t].pc = "tag"
    /\ reader' = [reader EXCEPT ![t].used_vocab = module_globals.vocab,
                                 ![t].used_templates = module_globals.templates,
                                 ![t].pc = "scored"]
    /\ UNCHANGED <<file_vocab, file_templates, module_globals, learner_pc, refreshes, coreVars,
                   buildVars, monoVars, folderVars, pipeVars, uploadVars, dbVars>>

\* analyze_single_clause returns
ReturnAnalysis(t) ==
    /\ reader[t].pc = "scored"
    /\ reader' = [reader EXCEPT ![t].pc = "idle"]
    /\ UNCHANGED <<file_vocab, file_templates, module_globals, learner_pc, refreshes, coreVars,
                   buildVars, monoVars, folderVars, pipeVars, uploadVars, dbVars>>

(***************************************************************************)
(* The upload handler: app.documents                                       *)
(***************************************************************************)
\* the base names of the uploaded files
BaseNames == {"a", "b"}

\* the requests documents() handles
Requests == 1..MaxUploads

\* the modification time of each folder of processed/ (0: no such folder)
\* left by earlier uploads
EarlierFolders ==
    {f \in [BaseNames -> 0..Cardinality(BaseNames)] :
        \A m, n \in BaseNames : (m # n /\ f[m] # 0) => f[m] # f[n]}

Latest(f) == CHOOSE t \in {f[n] : n \in BaseNames} : \A n \in BaseNames : f[n] <= t

NoRequest == [pc |-> "idle", name |-> "", latest_dir |-> ""]

\* saved_path = os.path.join(UPLOAD_DIR, filename); upload.save(saved_path)
SaveUpload(r) ==
    /\ up_req[r].pc = "idle"
    /\ \E name \in BaseNames :
          up_req' = [up_req EXCEPT ![r] = [pc |-> "engine", name |-> name, latest_dir |-> ""]]
    /\ UNCHANGED <<up_clock, up_mtime, coreVars, buildVars, monoVars, rulesVars, folderVars,
                   pipeVars, dbVars>>

\* advanced_risk_engine.py saved_path: os.makedirs(processed_dir,
\* exist_ok=True) and the two files written; a folder that is created gets
\* the current time, one that exists with its files keeps its time
RunEngine(r) ==
    /\ up_req[r].pc = "engine"
    /\ IF up_mtime[up_req[r].name] = 0
       THEN /\ up_clock' = up_clock + 1
            /\ up_mtime' = [up_mtime EXCEPT ![up_req[r].name] = up_clock + 1]
       ELSE UNCHANGED <<up_clock, up_mtime>>
    /\ up_req' = [up_req EXCEPT ![r].pc = "find"]
    /\ UNCHANGED <<coreVars, buildVars, monoVars, rulesVars, folderVars, pipeVars, dbVars>>

\* except subprocess.CalledProcessError: flash(...); return redirect(...)
EngineFails(r) ==
    /\ up_req[r].pc = "engine"
    /\ up_req' = [up_req EXCEPT ![r].pc = "failed"]
    /\ UNCHANGED <<up_clock, up_mtime, coreVars, buildVars, monoVars, rulesVars, folderVars,
                   pipeVars, dbVars>>

\* latest_dir = find_latest_processed_folder(): the most recently modified
\* subdirectory of processed/
find_latest_processed_folder(f) ==
    {n \in BaseNames : f[n] # 0 /\ f[n] = Latest(f)}

FindLatest(r) ==
    /\ up_req[r].pc = "find"
    /\ \E n \in find_latest_processed_folder(up_mtime) :
          up_req' = [up_req EXCEPT ![r].latest_dir = n, ![r].pc = "ingest"]
    /\ UNCHANGED <<up_clock, up_mtime, coreVars, buildVars, monoVars, rulesVars, folderVars,
                   pipeVars, dbVars>>

\* subprocess.run(["python3", "db_ingest.py", processed_folder, ...])
RunIngest(r) ==
    /\ up_req[r].pc = "ingest"
    /\ up_req' = [up_req EXCEPT ![r].pc = "ingested"]
    /\ UNCHANGED <<up_clock, up_mtime, coreVars, buildVars, monoVars, rulesVars, folderVars,
                   pipeVars, dbVars>>

(***************************************************************************)
(* Specifications                                                          *)
(***************************************************************************)
ScoreIdle == clause_text = <<>> /\ res = NoRes

SummaryIdle ==
    /\ handler = "none" /\ pc = "idle" /\ total_clauses = 0 /\ idx = 0
    /\ risky_count = 0 /\ risk_breakdown = EmptyBreakdown /\ summary = NoSummary
    /\ clauses_seen = EmptyBag

CleanIdle ==
    /\ ct_in = <<>> /\ ct_first = <<>> /\ ct_out = <<>> /\ ct_pass = 0
    /\ ct_lines = <<>> /\ ct_unique = <<>>

RateIdle == rate_p = Frac(0, 1) /\ rate_res = NoRating

ExtractIdle ==
    /\ ex_pdf = NoPdf /\ ex_pc = "idle" /\ ex_i = 0 /\ ex_text = <<>>
    /\ ex_log = <<>> /\ ex_done = <<>>

SegIdle == seg_sentence = <<>> /\ seg_clauses = <<>> /\ seg_called = FALSE

CsvIdle == csv_sentences = <<>> /\ csv_si = 0 /\ csv_rows = <<>> /\ csv_saved = FALSE

TextIdle == ExtractIdle /\ SegIdle /\ CsvIdle

CoreIdle == ScoreIdle /\ SummaryIdle /\ CleanIdle /\ RateIdle /\ TextIdle

BuildIdle == bl_text = <<>> /\ bl_clauses = <<>> /\ bl_rows = <<>> /\ bl_pc = "idle"

MonoIdle == mono_c1 = <<>> /\ mono_c2 = <<>> /\ mono_res = <<>>

RulesIdle ==
    /\ file_vocab = 0 /\ file_templates = 0 /\ module_globals = <<>>
    /\ learner_pc = "idle" /\ refreshes = 0 /\ reader = <<>>

FolderIdle ==
    /\ fd_pdfs = <<>> /\ fd_i = 0 /\ fd_pc = "idle" /\ fd_text = <<>>
    /\ fd_files = <<>> /\ fd_written = {} /\ fd_processed = {} /\ fd_log = <<>>

PipeIdle == pl_exists = <<>> /\ pl_stage = 0 /\ pl_started = <<>> /\ pl_exit = -1

UploadIdle == up_clock = 0 /\ up_mtime = <<>> /\ up_req = <<>>

DbIdle ==
    /\ db_csv = <<>> /\ db_pc = "idle" /\ db_i = 0 /\ db_tx = <<>>
    /\ db_tables = <<>> /\ db_exit = -1

StageIdle ==
    /\ BuildIdle /\ MonoIdle /\ RulesIdle /\ FolderIdle
    /\ PipeIdle /\ UploadIdle /\ DbIdle

\* scoring one clause
InitScore ==
    /\ clause_text \in Texts
    /\ res = NoRes
    /\ SummaryIdle
    /\ CleanIdle
    /\ RateIdle
    /\ TextIdle
    /\ StageIdle

NextScore ==
    \/ ScoreSentenceSimple
    \/ ScoreClauseSimpleEngine
    \/ ScoreClauseSimpleDb
    \/ ScoreClauseSimpleApp
    \/ AnalyzeSingleClause

SpecScore == InitScore /\ [][NextScore]_vars

\* summarising one document
InitSummary == CoreIdle /\ StageIdle

NextSummary ==
    \/ BlockStart \/ BlockStep \/ BlockFinish
    \/ ApiStart \/ ApiStep \/ ApiFinish
    \/ IngestStart \/ IngestStep \/ IngestFinish
    \/ SummaryStart \/ SummaryStep \/ SummaryFinish

SpecSummary == InitSummary /\ [][NextSummary]_vars

\* normalising one raw text
InitClean ==
    /\ ScoreIdle
    /\ SummaryIdle
    /\ RateIdle
    /\ TextIdle
    /\ StageIdle
    /\ ct_in \in RawTexts
    /\ ct_out = ct_in
    /\ ct_first = <<>>
    /\ ct_pass = 0
    /\ ct_lines = <<>>
    /\ ct_unique = <<>>

NextClean == CleanText

SpecClean == InitClean /\ [][NextClean]_vars

\* rating one percentage
InitRating ==
    /\ ScoreIdle
    /\ SummaryIdle
    /\ CleanIdle
    /\ TextIdle
    /\ StageIdle
    /\ rate_p \in Percents
    /\ rate_res = NoRating

NextRating == RateApp \/ RateDb \/ RateBlock \/ RateSummary

SpecRating == InitRating /\ [][NextRating]_vars

\* extracting the text of one PDF
InitExtract ==
    /\ StageIdle
    /\ ScoreIdle
    /\ SummaryIdle
    /\ CleanIdle
    /\ RateIdle
    /\ SegIdle
    /\ CsvIdle
    /\ ex_pdf \in Pdfs
    /\ ex_pc = "start"
    /\ ex_i = 0
    /\ ex_text = <<>>
    /\ ex_log = <<>>
    /\ ex_done = <<>>

NextExtract ==
    \/ OpenPdf
    \/ DirectPage
    \/ QualityGate
    \/ ConvertFromPath
    \/ OcrPage
    \/ OcrDone
    \/ ReturnText

SpecExtract == InitExtract /\ [][NextExtract]_vars

\* segmenting one sentence
InitSegment ==
    /\ StageIdle
    /\ ScoreIdle
    /\ SummaryIdle
    /\ CleanIdle
    /\ RateIdle
    /\ ExtractIdle
    /\ CsvIdle
    /\ seg_sentence \in Sentences
    /\ seg_clauses = <<>>
    /\ seg_called = FALSE

NextSegment == SegmentClauses

SpecSegment == InitSegment /\ [][NextSegment]_vars

\* building the sentence and clause table of one document
InitCsv ==
    /\ StageIdle
    /\ ScoreIdle
    /\ SummaryIdle
    /\ CleanIdle
    /\ RateIdle
    /\ ExtractIdle
    /\ SegIdle
    /\ csv_sentences \in Documents
    /\ csv_si = 0
    /\ csv_rows = <<>>
    /\ csv_saved = FALSE

NextCsv == CsvSentence \/ CsvSave

SpecCsv == InitCsv /\ [][NextCsv]_vars

\* build_latest_clauses.main on one extracted text file
InitBuild ==
    /\ CoreIdle
    /\ MonoIdle /\ RulesIdle /\ FolderIdle /\ PipeIdle /\ UploadIdle /\ DbIdle
    /\ bl_text \in BuildTexts
    /\ bl_clauses = <<>>
    /\ bl_rows = <<>>
    /\ bl_pc = "loaded"

NextBuild == SplitIntoClauses \/ WriteClausesCsv

SpecBuild == InitBuild /\ [][NextBuild]_vars

\* the same scorer on a clause and on the clause with one more piece
InitMono ==
    /\ CoreIdle
    /\ BuildIdle /\ RulesIdle /\ FolderIdle /\ PipeIdle /\ UploadIdle /\ DbIdle
    /\ \E pair \in ClausePairs : mono_c1 = pair[1] /\ mono_c2 = pair[2]
    /\ mono_res = <<>>

NextMono == ScorePairBanded \/ ScorePairWeighted

SpecMono == InitMono /\ [][NextMono]_vars

\* run_pipeline.main in a directory holding any of the stage scripts
InitPipeline ==
    /\ CoreIdle
    /\ BuildIdle /\ MonoIdle /\ RulesIdle /\ FolderIdle /\ UploadIdle /\ DbIdle
    /\ pl_exists \in [Stages -> BOOLEAN]
    /\ pl_stage = 1
    /\ pl_started = <<>>
    /\ pl_exit = -1

NextPipeline ==
    \/ StageSucceeds
    \/ StageFails
    \/ StageSkipped
    \/ StageMissing
    \/ PipelineComplete

SpecPipeline == InitPipeline /\ [][NextPipeline]_vars

\* db_ingest.insert_document_and_clauses on one clauses_scored.csv
InitIngest ==
    /\ CoreIdle
    /\ BuildIdle /\ MonoIdle /\ RulesIdle /\ FolderIdle /\ PipeIdle /\ UploadIdle
    /\ db_csv \in ClausesCsvs
    /\ db_pc = "start"
    /\ db_i = 0
    /\ db_tx = NoTx
    /\ db_tables \in InitialTables
    /\ db_exit = -1

NextIngest == InsertDocument \/ InsertClause \/ CommitTransaction \/ IngestFails

SpecIngest == InitIngest /\ [][NextIngest]_vars

\* process_folder on a folder of new PDFs and images
InitFolder ==
    /\ CoreIdle
    /\ BuildIdle /\ MonoIdle /\ RulesIdle /\ PipeIdle /\ UploadIdle /\ DbIdle
    /\ fd_pdfs \in Folders
    /\ fd_i = 0
    /\ fd_pc = "next"
    /\ fd_text = <<>>
    /\ fd_files = NoFiles
    /\ fd_written = {}
    /\ fd_processed = {}
    /\ fd_log = <<>>

NextFolder ==
    \/ NextPdf
    \/ NoTextExtracted
    \/ WriteText
    \/ WriteClauses
    \/ WriteEntities
    \/ MoveToProcessed
    \/ MoveImages

SpecFolder == InitFolder /\ [][NextFolder]_vars

\* a process that scores clauses in two threads while auto_learn runs
InitRules ==
    /\ CoreIdle
    /\ BuildIdle /\ MonoIdle /\ FolderIdle /\ PipeIdle /\ UploadIdle /\ DbIdle
    /\ file_vocab = 0
    /\ file_templates = 0
    /\ module_globals = NoGlobals
    /\ learner_pc = "idle"
    /\ refreshes = 0
    /\ reader = [t \in Threads |-> IdleReader]

NextRules ==
    \/ LearnerStarts
    \/ SaveVocab
    \/ SaveTemplates
    \/ \E t \in Threads :
          \/ CallAnalyze(t)
          \/ EnsureLoaded(t)
          \/ LoadVocab(t)
          \/ LoadTemplates(t)
          \/ StoreVocab(t)
          \/ StoreTemplates(t)
          \/ DetectRisks(t)
          \/ ReturnAnalysis(t)

SpecRules == InitRules /\ [][NextRules]_vars

\* documents() handling uploads next to the folders of earlier ones
InitUpload ==
    /\ CoreIdle
    /\ BuildIdle /\ MonoIdle /\ RulesIdle /\ FolderIdle /\ PipeIdle /\ DbIdle
    /\ up_mtime \in EarlierFolders
    /\ up_clock = Latest(up_mtime)
    /\ up_req = [r \in Requests |-> NoRequest]

NextUpload ==
    \E r \in Requests :
        \/ SaveUpload(r)
        \/ RunEngine(r)
        \/ EngineFails(r)
        \/ FindLatest(r)
        \/ RunIngest(r)

SpecUpload == InitUpload /\ [][NextUpload]_vars


(***************************************************************************)
(* Claims                                                                  *)
(***************************************************************************)
Analyzed == res.fn = "analyze_single_clause"
Banded == res.fn \in BandedFns

\* the table the banded scorer that produced res reads
TableOf(fn) ==
    CASE fn = "score_sentence_simple" -> RISKY_PATTERNS_detector
      [] fn = "engine.score_clause_simple" -> RISKY_PATTERNS_engine
      [] fn = "db_ingest.score_clause_simple" -> RISKY_PATTERNS_db
      [] fn = "app.score_clause_simple" -> RISKY_PATTERNS_app

RECURSIVE SumOver(_, _)
SumOver(S, f) ==
    IF S = {} THEN 0
    ELSE LET x == CHOOSE y \in S : TRUE IN f[x] + SumOver(S \ {x}, f)

NoRepeats(s) == Cardinality(Range(s)) = Len(s)

\* C1 (SpecScore): whatever the clause text and the tags the tagger returned,
\* analyze_single_clause returns final_score <= base_score.
C1_FinalAtMostBase ==
    Analyzed => res.final_score <= 100 * res.base_score

\* C1 witness: a risky clause with a protection phrase, its score lowered
C1_Witness ==
    /\ Analyzed
    /\ res.mitigations_found # <<>>
    /\ res.base_score > 0
    /\ res.final_score < 100 * res.base_score

\* C2 (SpecScore): in both regimes is_risky holds exactly when the tag list
\* is non-empty and exactly when the base score is positive (the raw and the
\* banded score for the banded scorers, the weighted sum for
\* analyze_single_clause, also for tags TAG_WEIGHTS does not list).
C2_RiskyIffTagsIffScore ==
    /\ Banded => /\ res.is_risky <=> res.tags # <<>>
                 /\ res.is_risky <=> res.raw > 0
                 /\ res.is_risky <=> res.score > 0
    /\ Analyzed => /\ res.is_risky <=> res.tags # <<>>
                   /\ res.is_risky <=> res.base_score > 0

\* C2 witness: a clause whose only tag is one TAG_WEIGHTS does not list
C2_Witness ==
    /\ Analyzed
    /\ res.tags = <<"indemnity">>
    /\ res.is_risky
    /\ res.base_score > 0

\* C4 (SpecScore): mitigations_found lists exactly the protection phrases
\* that occur in the lowered clause, each once; final_score is 0.7 *
\* base_score when one occurs and base_score > 0, and base_score otherwise;
\* is_risky is decided by the tags alone, mitigated or not.
C4_MitigationRule ==
    Analyzed =>
        LET present == {ph \in Range(PROTECTION_PHRASES) : Contains(Lower(res.text), ph)}
        IN  /\ Range(res.mitigations_found) = present
            /\ NoRepeats(res.mitigations_found)
            /\ res.final_score = IF present # {} /\ res.base_score > 0
                                 THEN 70 * res.base_score
                                 ELSE 100 * res.base_score
            /\ res.is_risky <=> res.tags # <<>>

\* C4 witness: two protection phrases (one in mixed case) in a risky clause,
\* the factor applied once
C4_Witness ==
    /\ Analyzed
    /\ Len(res.mitigations_found) = 2
    /\ res.text # Lower(res.text)
    /\ res.is_risky
    /\ res.final_score = 70 * res.base_score

\* C5 (SpecScore): the raw weight of a banded scorer is the sum of the weights
\* of all the rows whose phrase occurs in the lowered clause, each tag of a
\* matching row is in the tag list once, and the score returned is 3 for
\* raw >= 5, 2 for raw >= 3, 1 for raw > 0 and 0 otherwise.
C5_BandedScore ==
    Banded =>
        LET table == TableOf(res.fn)
            matching == {i \in 1..Len(table) : Contains(Lower(res.text), table[i].phrase)}
            raw == SumOver(matching, [i \in 1..Len(table) |-> table[i].base_score])
        IN  /\ res.raw = raw
            /\ Range(res.tags) = UNION {Range(table[i].tags) : i \in matching}
            /\ NoRepeats(res.tags)
            /\ res.score = (IF raw >= 5 THEN 3 ELSE IF raw >= 3 THEN 2
                            ELSE IF raw > 0 THEN 1 ELSE 0)
            /\ res.score \in 0..3

\* C5 witness: two matching rows with the same tag, both weights added
C5_Witness ==
    /\ Banded
    /\ res.tags = <<"data_sharing">>
    /\ res.raw = 6
    /\ res.score = 3

\* C6 (SpecScore): the severity of a clause is LOW for final_score <= 2,
\* MEDIUM for 2 < final_score <= 5 and HIGH above 5, final_score being the
\* mitigated score.
C6_SeverityOfFinalScore ==
    Analyzed =>
        res.severity = (IF res.final_score <= 200 THEN "LOW"
                        ELSE IF res.final_score <= 500 THEN "MEDIUM"
                        ELSE "HIGH")

\* C6 witness: a base score above 5 mitigated to at most 5, rated MEDIUM
C6_Witness ==
    /\ Analyzed
    /\ res.base_score > 5
    /\ res.final_score <= 500
    /\ res.severity = "MEDIUM"

----
Summarised(h) == handler = h /\ pc = "done" /\ summary.ok

C3_WitnessEmpty ==
    /\ Summarised("analyze_text_block")
    /\ summary.total_clauses = 0
    /\ summary.percent.num = 0

ThresholdSetA(p) ==
    IF p.num <= 1 * p.den THEN "A"
    ELSE IF p.num <= 5 * p.den THEN "B"
    ELSE IF p.num <= 15 * p.den THEN "C"
    ELSE "D"

ThresholdSetB(p) ==
    IF p.num <= 5 * p.den THEN "A"
    ELSE IF p.num <= 15 * p.den THEN "B"
    ELSE IF p.num <= 30 * p.den THEN "C"
    ELSE "D"

\* the letter a rating starts with
Letter(rating) ==
    CASE rating \in {"A", "A (Low Risk)"} -> "A"
      [] rating \in {"B", "B (Moderate Risk)"} -> "B"
      [] rating \in {"C", "C (High Risk)"} -> "C"
      [] rating = "D" -> "D"

Rated(fn) == rate_res.fn = fn

\* C7 as stated (SpecRating): every rating function returns, for each
\* percentage, the grade of threshold set A or of threshold set B:
\* overall_rating_from_percent and grade_from_percent that of set A,
\* analyze_text_block that of set B, risk_summary.main that of one of the two.
C7_Original ==
    /\ Rated("overall_rating_from_percent") => rate_res.grade = ThresholdSetA(rate_p)
    /\ Rated("grade_from_percent") => rate_res.grade = ThresholdSetA(rate_p)
    /\ Rated("analyze_text_block") => rate_res.grade = ThresholdSetB(rate_p)
    /\ Rated("risk_summary") =>
          Letter(rate_res.grade) \in {ThresholdSetA(rate_p), ThresholdSetB(rate_p)}

\* C7 amended (SpecRating): overall_rating_from_percent and grade_from_percent
\* return the grade of threshold set A and analyze_text_block that of set B;
\* risk_summary.main returns A up to 5, B up to 15 and C above 15, never D,
\* which is the grade of set B exactly for the percentages up to 30.
C7_RatingFunctions ==
    /\ Rated("overall_rating_from_percent") => rate_res.grade = ThresholdSetA(rate_p)
    /\ Rated("grade_from_percent") => rate_res.grade = ThresholdSetA(rate_p)
    /\ Rated("analyze_text_block") => rate_res.grade = ThresholdSetB(rate_p)
    /\ Rated("risk_summary") =>
          /\ Letter(rate_res.grade) =
                (IF rate_p.num <= 5 * rate_p.den THEN "A"
                 ELSE IF rate_p.num <= 15 * rate_p.den THEN "B" ELSE "C")
          /\ Letter(rate_res.grade) = ThresholdSetB(rate_p)
                <=> rate_p.num <= 30 * rate_p.den

\* C7 witness: risk_summary.main rating a percentage above 30
C7_Witness ==
    /\ Rated("risk_summary")
    /\ rate_p.num > 30 * rate_p.den
    /\ rate_res.grade = "C (High Risk)"

Scenario20of3 ==
    /\ Summarised("analyze_text_block")
    /\ summary.total_clauses = 20
    /\ summary.risky_clauses = 3

\* C8 as stated (SpecSummary): a document of 20 clauses, 3 of them risky, has
\* risky_percent 15.0 and is rated C by analyze_text_block.
C8_Original ==
    Scenario20of3 =>
        /\ summary.risky_percent = Frac(1500, 100)
        /\ summary.overall_rating = "C"

\* C8 amended (SpecSummary): a document of 20 clauses, 3 of them risky, has
\* risky_percent 15.0 and is rated B by analyze_text_block, the grade of
\* threshold set B for 15 (C is the grade of threshold set A).
C8_Scenario ==
    Scenario20of3 =>
        /\ summary.percent.num = 15 * summary.percent.den
        /\ summary.risky_percent = Frac(1500, 100)
        /\ summary.overall_rating = "B"
        /\ ThresholdSetB(summary.percent) = "B"
        /\ ThresholdSetA(summary.percent) = "C"

\* C8 witness: the summary of such a document
C8_Witness == Scenario20of3 /\ summary.overall_rating = "B"

----
\* C9 (SpecClean): clean_text run on a text it returned returns that text.
C9_Idempotent ==
    ct_pass >= 2 => ct_out = ct_first

\* C10 (SpecClean): no two lines of a text returned by clean_text are equal.
C10_NoDuplicateLines ==
    ct_pass >= 1 =>
        LET lines == SplitLines(ct_out)
        IN  \A i, j \in 1..Len(lines) : i # j => lines[i] # lines[j]

----
\* C11 (SpecClean): a text returned by clean_text has no match of the
\* header/footer pattern: no 'Page <digits>', no 'HEADER', no 'FOOTER'.
C11_NoResidualMarkers ==
    ct_pass >= 1 => \A i \in 1..Len(ct_first) : HeaderMatchLen(ct_first, i) = 0

----
\* the lines of a list that are not equal to an earlier line, in their order
FirstOccurrences(ls) ==
    LET keep == {i \in 1..Len(ls) : \A j \in 1..(i - 1) : ls[j] # ls[i]}
        pos(k) == CHOOSE i \in keep : Cardinality({j \in keep : j <= i}) = k
    IN  [k \in 1..Cardinality(keep) |-> ls[pos(k)]]

\* C12 (SpecClean): unique_lines is the list of the first occurrences of the
\* lines of the text, in their order: A,B,A,C gives A,B,C.
C12_FirstOccurrencesKept ==
    ct_pass >= 1 => ct_unique = FirstOccurrences(ct_lines)

\* C12 witness: four lines A,B,A,C of which the third was dropped
C12_Witness ==
    /\ ct_pass >= 1
    /\ Len(ct_lines) = 4
    /\ ct_lines[1] = ct_lines[3]
    /\ Cardinality({ct_lines[1], ct_lines[2], ct_lines[4]}) = 3
    /\ ct_unique = <<ct_lines[1], ct_lines[2], ct_lines[4]>>

----
\* a line of t ends in '<word>-' at position i and the next line starts with
\* a word
BrokenWordAt(t, i) ==
    /\ i > 1 /\ i < Len(t) - 1
    /\ t[i - 1] \in WordChars
    /\ t[i] = "-" /\ t[i + 1] = NL
    /\ t[i + 2] \in WordChars

\* C13 (SpecClean): wherever a line of the text ends in '<word>-' and the next
\* line starts with '<word>', the two are joined: no such place is left after
\* the hyphen-join, consecutive breaks included.
C13_EveryBreakJoined ==
    ct_pass >= 1 =>
        LET joined == JoinHyphens(RemoveHeaders(ct_in))
        IN  \A i \in 1..Len(joined) : ~BrokenWordAt(joined, i)

----
\* counts over the bag of clauses the loop has consumed
SeenRows(P(_)) == {r \in BagToSet(clauses_seen) : P(r)}
SeenCount(P(_)) ==
    LET S == SeenRows(P)
    IN  SumOver(S, [r \in S |-> CopiesIn(r, clauses_seen)])

SeenTotal == SeenCount(LAMBDA r : TRUE)
SeenRisky == SeenCount(LAMBDA r : r.is_risky)
SeenRiskyWith(t) == SeenCount(LAMBDA r : r.is_risky /\ t \in Range(r.tags))

\* the summary of analyze_text_block as a function of the bag of clauses
BlockSummaryOf ==
    LET p == RiskyPercent(SeenRisky, SeenTotal)
    IN  [ok |-> TRUE,
         total_clauses |-> SeenTotal,
         risky_clauses |-> SeenRisky,
         percent |-> p,
         risky_percent |-> Frac(Round2(p), 100),
         overall_rating |-> BlockRating(p),
         risk_breakdown |-> [t \in Tags |-> SeenRiskyWith(t)]]

\* C14 (SpecSummary): the summary of analyze_text_block depends on the clauses
\* of the document as a bag only: in whatever order the loop met them,
\* total_clauses, the number of risky clauses, risky_percent, overall_rating
\* and risk_breakdown are the same.
C14_OrderIndependent ==
    Summarised("analyze_text_block") => summary = BlockSummaryOf

\* C14 witness: a summary of a document with a clean clause, a clause with one
\* tag and a clause with two, which the loop meets in every order
C14_Witness ==
    /\ Summarised("analyze_text_block")
    /\ summary.total_clauses = 3
    /\ Cardinality(BagToSet(clauses_seen)) = 3
    /\ summary.risk_breakdown["data_sharing"] = 1
    /\ summary.risk_breakdown["account_closure"] = 1

----
BreakdownHandlers == {"analyze_text_block", "api_analyze_text", "risk_summary"}

----
Returned == ex_pc = "returned"

\* the run of extract_text_from_pdf on a PDF meets a step that raises
DirectFails(pdf) == \E i \in 1..Len(pdf.pages) : ~pdf.pages[i].direct.ok
DirectBlank(pdf) ==
    \A i \in 1..Len(pdf.pages) : pdf.pages[i].direct.text \in {<<>>, <<" ">>}
OcrFails(pdf) ==
    ~pdf.renders \/ \E i \in 1..Len(pdf.pages) : ~pdf.pages[i].ocr.ok
Fails(pdf) ==
    \/ ~pdf.opens
    \/ DirectFails(pdf)
    \/ DirectBlank(pdf) /\ OcrFails(pdf)

----
\* page i fails in the direct pass and a later page j has direct text
DirectFailureBefore(pdf, i, j) ==
    /\ i < j
    /\ pdf.opens
    /\ ~pdf.pages[i].direct.ok
    /\ pdf.pages[j].direct.ok
    /\ pdf.pages[j].direct.text # <<>>

\* the OCR pass runs, page i fails in it and a later page j has OCR text
OcrFailureBefore(pdf, i, j) ==
    /\ i < j
    /\ pdf.opens /\ ~DirectFails(pdf) /\ DirectBlank(pdf) /\ pdf.renders
    /\ ~pdf.pages[i].ocr.ok
    /\ pdf.pages[j].ocr.ok
    /\ pdf.pages[j].ocr.text # <<>>

\* C17 (SpecExtract): when the direct extraction or the OCR of a page fails,
\* the pages after it are still processed: the text of a later page is in
\* the text returned.
C17_LaterPagesProcessed ==
    Returned =>
        \A i, j \in 1..Len(ex_pdf.pages) :
            DirectFailureBefore(ex_pdf, i, j) \/ OcrFailureBefore(ex_pdf, i, j)
                => \E k \in 1..Len(ex_done) : ex_done[k].page = j

----
\* the concatenation of the texts one method gave for the pages of done
RECURSIVE TextOf(_, _)
TextOf(pdf, done) ==
    IF done = <<>> THEN <<>>
    ELSE LET d == Head(done)
         IN  (IF d.method = "direct"
              THEN pdf.pages[d.page].direct.text \o <<NL>>
              ELSE pdf.pages[d.page].ocr.text)
             \o TextOf(pdf, Tail(done))

\* C18 (SpecExtract): the text returned comes from one method: it is the
\* concatenation, in page order, of direct page texts or of OCR page texts,
\* never of both.
C18_OneMethod ==
    Returned =>
        /\ ex_text = TextOf(ex_pdf, ex_done)
        /\ \A k \in 1..Len(ex_done) : ex_done[k].method = ex_done[1].method

----
\* c occurs in t at position i
OccursAt(t, i, c) == i >= 1 /\ StartsWith(t, i, c)

\* the clauses occur in t from position i on, one after the other
RECURSIVE InTextOrder(_, _, _)
InTextOrder(t, i, cs) ==
    IF cs = <<>> THEN TRUE
    ELSE \E k \in i..Len(t) :
            /\ OccursAt(t, k, Head(cs))
            /\ InTextOrder(t, k + Len(Head(cs)), Tail(cs))

\* the lower-case form of a text
LowerChars(t) == [i \in 1..Len(t) |-> LowerChar(t[i])]

\* a connector stands in t as a whole word, in any case
HasWholeWordConnector(t) ==
    \E k \in 1..Len(Connectors), i \in 1..Len(t) :
        /\ StartsWith(LowerChars(t), i, Connectors[k])
        /\ (i = 1 \/ t[i - 1] \notin SegWordChars)
        /\ (i + Len(Connectors[k]) > Len(t) \/ t[i + Len(Connectors[k])] \notin SegWordChars)

\* C19 (SpecSegment): every clause segment_clauses returns is non-empty and
\* trimmed, holds no semicolon and no whole-word connector (in any case), and
\* the clauses stand in the sentence in the order returned; a sentence with
\* text outside its boundaries gives at least one clause.
C19_SplitAtEveryBoundary ==
    seg_called =>
        /\ \A k \in 1..Len(seg_clauses) :
              /\ seg_clauses[k] # <<>>
              /\ Strip(seg_clauses[k]) = seg_clauses[k]
              /\ ";" \notin Range(seg_clauses[k])
              /\ ~HasWholeWordConnector(seg_clauses[k])
        /\ InTextOrder(seg_sentence, 1, seg_clauses)
        /\ (~HasWholeWordConnector(seg_sentence) /\ ";" \notin Range(seg_sentence)
              /\ Strip(seg_sentence) # <<>>)
            => seg_clauses = <<Strip(seg_sentence)>>

\* C19 witness: a sentence split at a connector written with a capital, the
\* connector consumed
C19_Witness ==
    /\ seg_called
    /\ seg_sentence = <<"x", " ", "E", "x", "c", "e", "p", "t", " ", "x">>
    /\ seg_clauses = << <<"x">>, <<"x">> >>

\* C19 witness: a connector inside a longer word is not a boundary
C19_WitnessInsideWord ==
    /\ seg_called
    /\ seg_sentence = <<"x", "h", "o", "w", "e", "v", "e", "r", "x">>
    /\ seg_clauses = <<seg_sentence>>

----
\* C20 (SpecCsv): over the rows of a document the clause ids are 1, 2, ..., N
\* in row order, and every row carries the 1-based id of its sentence.
C20_ClauseIdsSequential ==
    csv_saved =>
        \A k \in 1..Len(csv_rows) :
            /\ csv_rows[k].Clause_ID = k
            /\ csv_rows[k].Sentence_ID \in 1..Len(csv_sentences)
            /\ csv_rows[k].Sentence = csv_sentences[csv_rows[k].Sentence_ID]

----
\* the positions of n in a run of whitespace that starts right after '.', '!'
\* or '?'
Separators(n) ==
    {i \in 2..Len(n) :
        /\ n[i] \in SpaceChars
        /\ \E j \in 2..i :
              /\ n[j - 1] \in Punctuation
              /\ \A k \in j..i : n[k] \in SpaceChars}

\* the maximal stretches <<a, b>> of n without a separator
FragmentsOf(n) ==
    LET sep == Separators(n)
        starts == {a \in 1..Len(n) : a \notin sep /\ (a = 1 \/ a - 1 \in sep)}
    IN  {<<a, CHOOSE b \in a..Len(n) :
                /\ b = Len(n) \/ b + 1 \in sep
                /\ \A c \in a..b : c \notin sep>> : a \in starts}

\* the fragment f of n without the whitespace at its ends
Trimmed(n, f) ==
    LET inside == {k \in f[1]..f[2] : n[k] \notin SpaceChars}
    IN  IF inside = {} THEN <<>>
        ELSE SubSeq(n, CHOOSE a \in inside : \A k \in inside : a <= k,
                       CHOOSE b \in inside : \A k \in inside : k <= b)

\* C21 (SpecBuild): the rows written by build_latest_clauses are, in text
\* order, exactly the trimmed fragments of at least 20 characters between the
\* whitespace runs that follow '.', '!' or '?' (line ends read as spaces),
\* numbered clause_id 1..N, with is_risky and risky_reason empty.
C21_PunctuationThreshold ==
    bl_pc = "written" =>
        LET n == NormalizeFrom(bl_text, 1)
            long == {f \in FragmentsOf(n) : Len(Trimmed(n, f)) >= 20}
        IN  /\ Len(bl_rows) = Cardinality(long)
            /\ \A f \in long :
                  LET k == Cardinality({g \in long : g[1] <= f[1]})
                  IN  bl_rows[k].text = Trimmed(n, f)
            /\ \A k \in 1..Len(bl_rows) :
                  /\ bl_rows[k].clause_id = k
                  /\ bl_rows[k].is_risky = ""
                  /\ bl_rows[k].risky_reason = ""

\* C21 witness: two clauses written and a shorter fragment discarded
C21_Witness ==
    /\ bl_pc = "written"
    /\ Len(bl_rows) >= 2
    /\ LET n == NormalizeFrom(bl_text, 1)
       IN  \E f \in FragmentsOf(n) : Trimmed(n, f) # <<>> /\ Len(Trimmed(n, f)) < 20

----
\* what a banded scorer reports for a clause
Reported(r) == <<r.is_risky, r.tags, r.score>>

\* C27 (SpecScore): whichever banded scorer scored the clause, its
\* (is_risky, sorted tags, score) are those every one of the four banded
\* scorers returns for the same text.
C27_SameAtEveryEntryPoint ==
    Banded =>
        /\ Reported(res) = Reported(score_clause_simple_engine(clause_text))
        /\ Reported(res) = Reported(score_clause_simple_db(clause_text))
        /\ Reported(res) = Reported(score_clause_simple_app(clause_text))
        /\ Reported(res) = Reported(score_sentence_simple(clause_text))

----
\* C22 (SpecMono): when the second clause matches every rule phrase the first
\* matches and at least one more, its base score is not below the first's:
\* the band 0..3 of a banded scorer, and the sum of the weights of the tags
\* present in the weighted regime.
C22_ScoringMonotone ==
    /\ (mono_res # <<>> /\ mono_res.regime = "banded") =>
          ((mono_res.m1 \subseteq mono_res.m2 /\ mono_res.m1 # mono_res.m2)
              => mono_res.s2 >= mono_res.s1)
    /\ (mono_res # <<>> /\ mono_res.regime = "weighted") =>
          ((/\ NoRepeats(mono_res.m1) /\ NoRepeats(mono_res.m2)
            /\ Range(mono_res.m1) \subseteq Range(mono_res.m2)
            /\ Range(mono_res.m1) # Range(mono_res.m2))
              => mono_res.s2 >= mono_res.s1)

\* C22 witness: a banded scorer on a clause that matches a phrase and on the
\* clause with one more matched phrase, the second scored higher
C22_Witness ==
    /\ mono_res # <<>>
    /\ mono_res.regime = "banded"
    /\ mono_res.m1 # {}
    /\ mono_res.m1 \subseteq mono_res.m2
    /\ mono_res.m1 # mono_res.m2
    /\ mono_res.s2 > mono_res.s1

----
\* the stages started so far
StartedStages == {pl_started[k].stage : k \in 1..Len(pl_started)}

\* C26 (SpecPipeline): the stages start in the fixed order, each only after
\* every stage started before it returned 0; a stage that returns a non-zero
\* exit code is the last one started and the driver exits with that code; a
\* missing build_latest_clauses.py or risky_phrase_detector.py makes the
\* driver exit with 1 before any later stage; a missing optional script is
\* skipped, and the driver completes with 0 once every script present has
\* returned 0.
C26_StopsAtFirstFailure ==
    /\ \A k \in 1..Len(pl_started) :
          /\ pl_exists[pl_started[k].stage]
          /\ k < Len(pl_started) =>
                /\ pl_started[k].stage < pl_started[k + 1].stage
                /\ pl_started[k].returncode = 0
          /\ pl_started[k].returncode > 0 => pl_exit = pl_started[k].returncode
          /\ pl_started[k].returncode # 0 => ~Running
    /\ \A st \in Required :
          ~pl_exists[st] =>
              /\ \A later \in StartedStages : later < st
              /\ pl_stage <= st
              /\ (pl_stage = st /\ ~Running) => pl_exit = 1
    /\ pl_exit = 0 =>
          /\ StartedStages = {st \in Stages : pl_exists[st]}
          /\ \A k \in 1..Len(pl_started) : pl_started[k].returncode = 0

\* C26 witness: the extractor script is missing and skipped, two stages
\* return 0 and the next one returns 2, which is the driver's exit code
C26_Witness ==
    /\ ~pl_exists[1]
    /\ Len(pl_started) = 3
    /\ pl_started[3].returncode = 2
    /\ pl_exit = 2

----
\* the clauses rows of document d in the committed tables
ClausesOf(d) == {c \in db_tables.clauses : c.document_id = d.id}

\* the documents rows committed by this run
NewDocuments == {d \in db_tables.documents : \A t \in InitialTables : d \notin t.documents}

\* C30 (SpecIngest): nothing of the transaction is in the tables before the
\* commit; after a successful run the tables hold exactly one new documents
\* row, with total_clauses the number of CSV rows and risky_clauses the
\* number of its clauses rows stored as risky, and exactly one clauses row
\* per CSV row; after a failed insert or commit the tables are as before the
\* run and the exit code is not 0; no documents row is ever without all of
\* its clauses.
C30_AllOrNothing ==
    /\ \A d \in db_tables.documents : Cardinality(ClausesOf(d)) = d.total_clauses
    /\ db_pc \in {"start", "clauses"} => db_tables \in InitialTables /\ db_exit = -1
    /\ db_pc = "failed" => db_tables \in InitialTables /\ db_exit # 0 /\ db_exit # -1
    /\ db_pc = "done" =>
          /\ db_exit = 0
          /\ Cardinality(NewDocuments) = 1
          /\ \A d \in NewDocuments :
                /\ d.total_clauses = Len(db_csv)
                /\ d.risky_clauses = Cardinality({c \in ClausesOf(d) : c.model_is_risky})
                /\ \A k \in 1..Len(db_csv) :
                      \E c \in ClausesOf(d) : c.row = k /\ c.text = db_csv[k].text
                /\ Cardinality(ClausesOf(d)) = Len(db_csv)

\* C30 witness: a document of two clauses, one of them risky, committed next
\* to an earlier document
C30_Witness ==
    /\ db_pc = "done"
    /\ Len(db_csv) = 2
    /\ \E d \in NewDocuments : d.risky_clauses = 1 /\ d.id = 2

\* a run that failed after it had inserted the document and a clause
C30_WitnessRolledBack ==
    /\ db_pc = "failed"
    /\ db_i >= 1
    /\ db_exit = 1

----
\* process_pdf has returned for the k-th document of the run
Returned_process_pdf(k) == fd_i > k \/ (fd_i = k /\ fd_pc \in {"images", "next", "done"})

\* C25 (SpecFolder): for a document whose cleaned text has no content,
\* process_pdf reports that no text was extracted and returns without writing
\* an output and without moving the source to processed/.
C25_EmptyInputFailure ==
    \A k \in 1..Len(fd_pdfs) :
        (Returned_process_pdf(k) /\ Strip(clean_text(fd_pdfs[k].text)) = <<>>) =>
            /\ \E j \in 1..Len(fd_log) : fd_log[j].doc = fd_pdfs[k].name
            /\ \A kind \in OutputKinds : <<fd_pdfs[k].name, kind>> \notin fd_written
            /\ fd_pdfs[k].name \notin fd_processed

----
\* C29 (SpecFolder): at the end of a process_folder run every output written
\* for a document is still that document's, and every document that was
\* processed is in processed/ (with the images, if the run had any).
C29_OutputsSurvive ==
    fd_pc = "done" =>
        /\ \A w \in fd_written : fd_files[OutputPath(w[2], timestamp)].doc = w[1]
        /\ \A k \in 1..Len(fd_pdfs) :
              Strip(fd_pdfs[k].text) # <<>> =>
                  /\ fd_pdfs[k].name \in fd_processed
                  /\ \A kind \in OutputKinds : <<fd_pdfs[k].name, kind>> \in fd_written
        /\ (\E k \in 1..Len(fd_pdfs) : fd_pdfs[k].images) => <<"images">> \in fd_processed

----
\* C23 (SpecRules): a scoring call that starts after a refresh has been
\* written uses the vocabulary and the templates of that refresh or of a
\* later one, not those loaded before it.
C23_NotCachedAcrossRefresh ==
    \A t \in Threads :
        (/\ reader[t].pc = "scored"
         /\ reader[t].used_vocab # Unset
         /\ reader[t].used_templates # Unset) =>
            /\ reader[t].used_vocab[1] >= reader[t].since
            /\ reader[t].used_templates[1] >= reader[t].since

----
\* C24 (SpecRules): the vocabulary and the templates a scoring call uses are
\* both set and come from the same version of the configuration.
C24_NeverPartiallyUpdated ==
    \A t \in Threads :
        reader[t].pc = "scored" =>
            /\ reader[t].used_vocab # Unset
            /\ reader[t].used_templates # Unset
            /\ reader[t].used_vocab = reader[t].used_templates

----
\* C28 (SpecUpload): the folder documents() hands to db_ingest.py is the
\* folder the engine wrote for the same upload, processed/<base name>.
C28_OwnProcessedFolder ==
    \A r \in Requests :
        up_req[r].pc \in {"ingest", "ingested"} => up_req[r].latest_dir = up_req[r].name

====
